---- MODULE Spec2Model ----
(***************************************************************************)
(* State-machine model of the message-send orchestration hook              *)
(* useSendMessage (src/unnamed/part_001): the Turn Store, the completion   *)
(* guard, the cancellation controller, the pre-processing pipeline of      *)
(* onSend, the dispatch to one execution strategy, the strategies'         *)
(* callbacks into updateAssistantTurn, and onStop.                         *)
(*                                                                         *)
(* JavaScript runs the hook on one thread: a step of the model is one      *)
(* synchronous segment of code, from an entry point or the resumption of   *)
(* an await up to the next await or return.                                *)
(*                                                                         *)
(* Text is a sequence of pieces; a piece is an atomic fragment of text, so *)
(* concatenation is \o and the empty string is << >>.                      *)
(***************************************************************************)
EXTENDS Naturals, Sequences, FiniteSets

\* ------------------------------------------------------------------ bounds

\* Accepted onSend invocations in one behaviour.
MaxSends == 2
Sends == 1..MaxSends

\* URLs in the message of the send whose scrapes are followed one by one.
MaxUrls == 2

\* The empty value of both refs (null).
Null == 0

\* ------------------------------------------------------------------- text

CancelNotice == <<"[Operation cancelled by user]">>
StreamCancelled == <<"Streaming operation cancelled">>
ErrPrefix == <<"Error: ">>
NoModelError == <<"Configuration error", ": No model selected.">>
NoUrlError == <<"Configuration error", ": Could not determine API URL for host">>
WebSearchFailed == <<"Web Search Failed: ">>
ScrapeErrorFragment == <<"[Error scraping one or more URLs]">>

\* The message of a send, and what the query optimizer can return for it:
\* an empty text, a blank one, the message itself, or another query.
Message == <<"msg">>
OptimizerResults == {<< >>, <<" ">>, <<" ", " ">>, Message, <<"better query">>}

\* Cumulative payloads a strategy hands to its callback.
Payloads == {<< >>, <<"a">>}
\* Messages of a failing transport or of a thrown error.
ErrorMessages == {<< >>, <<"net">>, StreamCancelled}

\* update.includes("Operation cancelled by user") ||
\* update.includes("Streaming operation cancelled")
includesCancelText(update) ==
    \E i \in 1..Len(update) :
        update[i] \in {CancelNotice[1], StreamCancelled[1]}

\* ------------------------------------------------------------------ state

VARIABLES
    turns,              \* the Turn Store (setTurns)
    loading,            \* setLoading
    chatStatus,         \* setChatStatus
    completionGuard,    \* completionGuard.current: a callId or Null
    abortControllerRef, \* abortControllerRef.current: the send owning it, or Null
    nSends,             \* accepted onSend invocations so far
    callId,             \* callId[s]: the token of send s (Date.now())
    aborted,            \* sends whose controller.signal.aborted is true
    pc,                 \* pc[s]: the await send s is suspended at
    chatMode,           \* chatMode[s]: config.chatMode captured by send s
    isLoading,          \* isLoading[s]: the isLoading prop captured by send s
    queryForProcessing, \* queryForProcessing[s]: the text handed to the web search
    assistantIdx,       \* assistantIdx[s]: index of the placeholder of send s, or 0
    strategy,           \* strategy[s]: the strategy send s has invoked
    terminal,           \* terminal[s]: the strategy of s has made its terminal call
    scrapes,            \* scrapes[i]: the scrape of the i-th URL of the message
    scrapedContent,     \* the scraped-URL fragment (the local of line 199)
    tabKind,            \* what chrome.tabs.query returned: "pdf", "page" or ""
    pageContent,        \* setPageContent: the page fragment
    queryDisplayKind,   \* the label of processedQueryDisplay, or ""
    promptInput,        \* what the prompt of a send is built from
    webContentForLlm,   \* the web fragment (line 314)
    pageContentForLlm,  \* the page fragment (line 365)
    systemPromptParts,  \* the kinds of the parts of the system prompt, in order
    promptAt,           \* how far the prompt of the send is built
    chunks,             \* the payloads of the transport's unfinished chunks
    inputIsLoading,     \* the isLoading prop of the Input component
    inputMessage,       \* the message prop of the Input component
    called,             \* the handlers the Input component has called
    currentUtterance,   \* the utterance the speech module takes as current
    onEndCallback,      \* the speakMessage call whose onEnd is stored
    isSpeechPaused,     \* the speech module's pause flag
    currentText,        \* the text kept for the fallback of resumeSpeech
    utterances,         \* the utterances handed to speechSynthesis
    events,             \* the utterance events not yet delivered
    invocations         \* the invocations of onEnd callbacks

vars == <<turns, loading, chatStatus, completionGuard, abortControllerRef,
          nSends, callId, aborted, pc, chatMode, isLoading,
          queryForProcessing, assistantIdx, strategy, terminal,
          scrapes, scrapedContent, tabKind, pageContent, queryDisplayKind,
          promptInput, webContentForLlm, pageContentForLlm, systemPromptParts,
          promptAt, chunks, inputIsLoading, inputMessage, called,
          currentUtterance, onEndCallback, isSpeechPaused, currentText,
          utterances, events, invocations>>

\* The scrapes of a send are followed URL by URL in ScrapeSpec and
\* StageSpec, the page fragment and the query display in StageSpec, the
\* truncation of the fragments and the system prompt in PromptSpec, the
\* payloads of the streaming transport in StreamSpec, the Input component in
\* InputSpec, the speech module in SpeechSpec; Spec
\* takes each stage as one await and leaves these variables alone.
scrapeVars == <<scrapes, scrapedContent>>
stageVars == <<tabKind, pageContent, queryDisplayKind>>
promptVars == <<promptInput, webContentForLlm, pageContentForLlm,
                systemPromptParts, promptAt>>
streamVars == <<chunks>>
inputVars == <<inputIsLoading, inputMessage, called>>
speechVars == <<currentUtterance, onEndCallback, isSpeechPaused, currentText,
                utterances, events, invocations>>
uiVars == <<inputVars, speechVars>>
detailVars == <<scrapeVars, stageVars, promptVars, streamVars, uiVars>>

\* A text of which only the extent matters: the characters from..to-1 of the
\* text it was taken from.
Slice(from, to) == [from |-> from, to |-> to]
EmptyText == Slice(0, 0)
Length(text) == text.to - text.from

\* The Input component before it is rendered.
NoInput ==
    /\ inputIsLoading = FALSE
    /\ inputMessage = << >>
    /\ called = << >>

\* part_002 lines 268-276: the speech module as it is loaded.
NoSpeech ==
    /\ currentUtterance = 0
    /\ onEndCallback = 0
    /\ isSpeechPaused = FALSE
    /\ currentText = ""
    /\ utterances = << >>
    /\ events = << >>
    /\ invocations = << >>

\* The variables of PromptSpec where no prompt is followed.
NoPrompt ==
    /\ promptInput = [mode |-> "chat"]
    /\ webContentForLlm = EmptyText
    /\ pageContentForLlm = EmptyText
    /\ systemPromptParts = << >>
    /\ promptAt = "idle"

\* The state the reconciler reads and writes.
Store ==
    [turns |-> turns, loading |-> loading, chatStatus |-> chatStatus,
     completionGuard |-> completionGuard,
     abortControllerRef |-> abortControllerRef]

Commit(G) ==
    /\ turns' = G.turns
    /\ loading' = G.loading
    /\ chatStatus' = G.chatStatus
    /\ completionGuard' = G.completionGuard
    /\ abortControllerRef' = G.abortControllerRef

Last(seq) == seq[Len(seq)]
Front(seq) == SubSeq(seq, 1, Len(seq) - 1)

TerminalStatus == {"complete", "error", "cancelled"}

\* ------------------------------------------------------------ reconciler

\* Mutant of guardMismatch: an empty guard slot lets every update through.
guardMismatchUnlessEmpty(G, id, isFinished, isError, isCancelled) ==
    /\ G.completionGuard # Null
    /\ G.completionGuard # id /\ ~isFinished /\ ~isError /\ ~isCancelled

\* line 95: a non-terminal update of a token that is not the active one.
guardMismatch(G, id, isFinished, isError, isCancelled) ==
    G.completionGuard # id /\ ~isFinished /\ ~isError /\ ~isCancelled

\* lines 99-101: a signal received after the operation was finalized.
alreadyFinalized(G, id, update, isFinished, isError, isCancelled) ==
    /\ G.completionGuard = Null
    /\ id # Null
    /\ \/ (update = << >> /\ isFinished /\ ~isError /\ ~isCancelled)
       \/ (isError /\ includesCancelText(update))

\* Mutant of updatedStatus: a cancellation outranks an error.
updatedStatusCancelledFirst(isFinished, isError, isCancelled) ==
    IF isCancelled THEN "cancelled"
    ELSE IF isError THEN "error"
    ELSE IF isFinished THEN "complete" ELSE "streaming"

\* line 125
updatedStatus(isFinished, isError, isCancelled) ==
    IF isError THEN "error"
    ELSE IF isCancelled THEN "cancelled"
    ELSE IF isFinished THEN "complete" ELSE "streaming"

\* Mutant of finalContentForTurn: a payload is added to the content.
finalContentAppended(existingContent, update, isError, isCancelled) ==
    IF isCancelled
        THEN existingContent
             \o (IF existingContent # << >> THEN <<" ">> ELSE << >>)
             \o update
    ELSE IF isError
        THEN ErrPrefix
             \o (IF update # << >> THEN update
                 ELSE <<"Unknown stream/handler error">>)
    ELSE existingContent \o update

\* Mutant of finalContentForTurn: a cancellation replaces the content.
finalContentReplaced(existingContent, update, isError, isCancelled) ==
    IF isError
        THEN ErrPrefix
             \o (IF update # << >> THEN update
                 ELSE <<"Unknown stream/handler error">>)
    ELSE update

\* lines 128-135
finalContentForTurn(existingContent, update, isError, isCancelled) ==
    IF isCancelled
        THEN existingContent
             \o (IF existingContent # << >> THEN <<" ">> ELSE << >>)
             \o update
    ELSE IF isError
        THEN ErrPrefix
             \o (IF update # << >> THEN update
                 ELSE <<"Unknown stream/handler error">>)
    ELSE update

\* lines 109-138: the updater handed to setTurns.
setTurnsUpdater(prevTurns, update, isFinished, isError, isCancelled) ==
    IF Len(prevTurns) = 0 \/ Last(prevTurns).role # "assistant"
        THEN IF isError
                 THEN Append(prevTurns,
                        [role |-> "assistant",
                         rawContent |-> ErrPrefix
                             \o (IF update # << >> THEN update
                                 ELSE <<"Unknown operation error">>),
                         status |-> "error",
                         webDisplayContent |-> ""])
                 ELSE prevTurns
        ELSE Append(Front(prevTurns),
               [Last(prevTurns) EXCEPT
                   !.rawContent = finalContentForTurn(
                       Last(prevTurns).rawContent, update, isError, isCancelled),
                   !.status = updatedStatus(isFinished, isError, isCancelled)])

\* Mutant of releaseGuard: the slot is cleared whatever token it holds.
releaseGuardOfAnyToken(G, id) ==
    [G EXCEPT !.completionGuard = Null, !.abortControllerRef = Null]

\* lines 145-150
releaseGuard(G, id) ==
    IF G.completionGuard = id
        THEN [G EXCEPT !.completionGuard = Null, !.abortControllerRef = Null]
        ELSE G

\* lines 94-152
updateAssistantTurn(G, id, update, isFinished, isError, isCancelled) ==
    IF guardMismatch(G, id, isFinished, isError, isCancelled)
        THEN G
    ELSE IF alreadyFinalized(G, id, update, isFinished, isError, isCancelled)
        THEN [G EXCEPT !.loading = FALSE, !.chatStatus = "idle"]
    ELSE LET G1 == [G EXCEPT !.turns = setTurnsUpdater(
                        G.turns, update, isFinished, isError, isCancelled)]
         IN  IF isFinished \/ isError \/ isCancelled
                 THEN releaseGuard(
                        [G1 EXCEPT !.loading = FALSE,
                                   !.chatStatus =
                                       IF isError \/ isCancelled
                                           THEN "idle" ELSE "done"],
                        id)
                 ELSE G1

\* ------------------------------------------------------------- onSend

ChatModes == {"chat", "web", "page"}
ComputeLevels == {"high", "medium", "low"}

\* What a synchronous segment of onSend leaves behind: the store, the await
\* the send is suspended at ("done" once onSend has returned) and the
\* strategy it has invoked, if any.
Suspended(G, at) == [G |-> G, pc |-> at, strategy |-> "none"]
Invoked(G, which) == [G |-> G, pc |-> "dispatch", strategy |-> which]

\* Mutant of dispatch: every send is handed to the streaming transport.
dispatchAlwaysDirect(G, id, computeLevel, urlFound) ==
    Invoked([G EXCEPT !.chatStatus = "thinking"], "direct")

\* lines 410-485: the dispatch selector, up to the await of the strategy.
dispatch(G, id, computeLevel, urlFound) ==
    LET G1 == [G EXCEPT !.chatStatus = "thinking"]
    IN  IF computeLevel = "high" THEN Invoked(G1, "high")
        ELSE IF computeLevel = "medium" THEN Invoked(G1, "medium")
        ELSE IF ~urlFound
            THEN Suspended(
                   updateAssistantTurn(G1, id, NoUrlError, TRUE, TRUE, FALSE),
                   "done")
        ELSE Invoked(G1, "direct")

\* Mutant of pageStage: the page is read whatever the chat mode.
pageStageAnyMode(G, id, mode, computeLevel, urlFound) ==
    Suspended([G EXCEPT !.chatStatus = "reading"], "tabQuery")

\* lines 323-329 and 369-371: the page stage, up to chrome.tabs.query.
pageStage(G, id, mode, computeLevel, urlFound) ==
    IF mode = "page"
        THEN Suspended([G EXCEPT !.chatStatus = "reading"], "tabQuery")
        ELSE dispatch(G, id, computeLevel, urlFound)

\* lines 360-368: after the page content was read (or its read failed).
afterPage(G, id, computeLevel, urlFound) ==
    dispatch([G EXCEPT !.chatStatus = "thinking"], id, computeLevel, urlFound)

\* lines 215-231: the user turn and the assistant placeholder.
appendTurnPair(prevTurns) ==
    prevTurns \o
    << [role |-> "user", rawContent |-> Message, status |-> "complete",
        webDisplayContent |-> ""],
       [role |-> "assistant", rawContent |-> << >>, status |-> "streaming",
        webDisplayContent |-> ""] >>

\* lines 215-277: from the turn pair to the await of the query optimizer.
afterScrape(G, id, mode, modelFound, computeLevel, urlFound) ==
    LET G1 == [G EXCEPT !.turns = appendTurnPair(G.turns)]
    IN  IF ~modelFound
            THEN Suspended(
                   updateAssistantTurn(G1, id, NoModelError, TRUE, TRUE, FALSE),
                   "done")
        ELSE IF mode = "web"
            THEN Suspended([G1 EXCEPT !.chatStatus = "thinking"], "optimize")
        ELSE pageStage(G1, id, mode, computeLevel, urlFound)

\* lines 265, 268 and 273: processedQueryDisplay is one of three labels
\* followed by the query, never empty; the turn records that it was attached.
processedQueryDisplay == "query display"

\* line 305: the query display is attached to the last turn when it is an
\* assistant turn that has no terminal status.
attachQueryDisplay(prevTurns) ==
    [i \in 1..Len(prevTurns) |->
        IF /\ prevTurns[i].role = "assistant"
           /\ i = Len(prevTurns)
           /\ prevTurns[i].status \notin TerminalStatus
            THEN [prevTurns[i] EXCEPT !.webDisplayContent = processedQueryDisplay]
            ELSE prevTurns[i]]

\* lines 285-307: after the web search.  outcome is "ok", "abortError" (the
\* call rejected with an AbortError) or "error" (it rejected otherwise).
afterSearch(G, id, isAborted, outcome, computeLevel, urlFound) ==
    IF outcome = "ok"
        THEN LET G1 == [G EXCEPT !.chatStatus = "thinking"]
             IN  IF isAborted THEN Suspended(G1, "done")
                 ELSE pageStage(
                        [G1 EXCEPT !.turns = attachQueryDisplay(G1.turns)],
                        id, "web", computeLevel, urlFound)
    ELSE IF outcome = "abortError" \/ isAborted
        THEN Suspended(G, "done")
    ELSE Suspended(
           updateAssistantTurn([G EXCEPT !.chatStatus = "idle"], id,
               WebSearchFailed \o <<"net">>, TRUE, TRUE, FALSE),
           "done")

\* lines 170-194: the previous controller is aborted, a new one stored,
\* the flags set and the token stored.
beginSend(G, s, id, mode) ==
    [G EXCEPT !.abortControllerRef = s,
              !.loading = TRUE,
              !.chatStatus = IF mode = "web" THEN "searching"
                             ELSE IF mode = "page" THEN "reading"
                             ELSE "thinking",
              !.completionGuard = id]

\* Mutant of abortedBySend: the previous controller is replaced, not aborted.
abortedBySendNever(G) == {}

\* lines 170-175: the controller onSend aborts.
abortedBySend(G) ==
    IF G.completionGuard # Null /\ G.abortControllerRef # Null
        THEN {G.abortControllerRef} ELSE {}

\* line 155: Date.now() is the token.  The clock never runs backwards; two
\* calls within one millisecond read the same value.
mintCallId(sameTick) ==
    IF nSends = 0 THEN 1
    ELSE IF sameTick THEN callId[nSends] ELSE callId[nSends] + 1

\* What a segment of send s leaves in the send's own state.
Settle(s, R, mode, query) ==
    /\ Commit(R.G)
    /\ pc' = [pc EXCEPT ![s] = R.pc]
    /\ strategy' = [strategy EXCEPT ![s] = R.strategy]
    /\ chatMode' = [chatMode EXCEPT ![s] =
            IF R.pc \in {"dispatch", "done"} THEN "chat" ELSE mode]
    /\ queryForProcessing' = [queryForProcessing EXCEPT ![s] =
            IF R.pc = "search" THEN query ELSE Message]
    /\ isLoading' = [isLoading EXCEPT ![s] =
            IF R.pc = "done" THEN FALSE ELSE @]

\* lines 154-213: onSend with a configuration and a message, up to its first
\* await.
OnSend(mode, hasUrls, sameTick, modelFound, computeLevel, urlFound) ==
    /\ nSends < MaxSends
    /\ LET s == nSends + 1
           id == mintCallId(sameTick)
           G1 == beginSend(Store, s, id, mode)
           R == IF hasUrls
                    THEN Suspended([G1 EXCEPT !.chatStatus = "searching"], "scrape")
                    ELSE afterScrape(G1, id, mode, modelFound, computeLevel, urlFound)
       IN  /\ nSends' = s
           /\ callId' = [callId EXCEPT ![s] = id]
           /\ aborted' = aborted \cup abortedBySend(Store)
           /\ assistantIdx' = [assistantIdx EXCEPT ![s] =
                  IF hasUrls THEN 0 ELSE Len(turns) + 2]
           /\ Commit(R.G)
           /\ pc' = [pc EXCEPT ![s] = R.pc]
           /\ strategy' = [strategy EXCEPT ![s] = R.strategy]
           /\ chatMode' = [chatMode EXCEPT ![s] =
                  IF R.pc \in {"dispatch", "done"} THEN "chat" ELSE mode]
           /\ isLoading' = [isLoading EXCEPT ![s] =
                  IF R.pc = "done" THEN FALSE ELSE loading]
           /\ UNCHANGED <<queryForProcessing, terminal>>
           /\ UNCHANGED detailVars

\* Mutant of OnSendRejected: onSend bails out after it has aborted the send in
\* flight and emptied the guard slot.
OnSendRejectedLate(configMissing) ==
    /\ loading' = IF configMissing THEN FALSE ELSE loading
    /\ completionGuard' = Null
    /\ abortControllerRef' = Null
    /\ aborted' = aborted \cup abortedBySend(Store)
    /\ UNCHANGED <<turns, chatStatus, nSends, callId, pc, chatMode, isLoading,
                   queryForProcessing, assistantIdx, strategy, terminal>>
    /\ UNCHANGED detailVars

\* lines 160-168: onSend without a configuration, or without a message.
OnSendRejected(configMissing) ==
    /\ loading' = IF configMissing THEN FALSE ELSE loading
    /\ UNCHANGED <<turns, chatStatus, completionGuard, abortControllerRef,
                   nSends, callId, aborted, pc, chatMode, isLoading,
                   queryForProcessing, assistantIdx, strategy, terminal>>
    /\ UNCHANGED detailVars

\* lines 203-213 and on: the scrapes have settled (all fulfilled, or one
\* rejected: either way onSend goes on).
ScrapeSettled(s, modelFound, computeLevel, urlFound) ==
    /\ pc[s] = "scrape"
    /\ LET G1 == [Store EXCEPT !.chatStatus = "thinking"]
           R == afterScrape(G1, callId[s], chatMode[s], modelFound,
                            computeLevel, urlFound)
       IN  /\ Settle(s, R, chatMode[s], Message)
           /\ assistantIdx' = [assistantIdx EXCEPT ![s] = Len(turns) + 2]
    /\ UNCHANGED <<nSends, callId, aborted, terminal>>
    /\ UNCHANGED detailVars

\* optimizedQuery.trim() is the empty string.
isBlank(text) == \A i \in 1..Len(text) : text[i] = " "

\* Mutant of queryAfterOptimize: whatever the optimizer returns is searched.
queryAlwaysOptimized(message, rejected, optimizedQuery) ==
    IF rejected THEN message ELSE optimizedQuery

\* lines 234 and 254-274: the query the web search is called with.
queryAfterOptimize(message, rejected, optimizedQuery) ==
    IF /\ ~rejected
       /\ optimizedQuery # << >>
       /\ ~isBlank(optimizedQuery)
       /\ optimizedQuery # message
        THEN optimizedQuery
        ELSE message

\* lines 263-284: the query optimizer has settled: it rejected, or returned
\* optimizedQuery; the web search is called.
OptimizeSettled(s, rejected, optimizedQuery) ==
    /\ pc[s] = "optimize"
    /\ Settle(s, Suspended([Store EXCEPT !.chatStatus = "searching"], "search"),
              chatMode[s],
              queryAfterOptimize(Message, rejected, optimizedQuery))
    /\ UNCHANGED <<nSends, callId, aborted, assistantIdx, terminal>>
    /\ UNCHANGED detailVars

\* lines 284-307 and on: the web search has settled.
SearchSettled(s, outcome, computeLevel, urlFound) ==
    /\ pc[s] = "search"
    /\ outcome = "abortError" => s \in aborted
    /\ Settle(s, afterSearch(Store, callId[s], s \in aborted, outcome,
                             computeLevel, urlFound),
              chatMode[s], Message)
    /\ UNCHANGED <<nSends, callId, aborted, assistantIdx, terminal>>
    /\ UNCHANGED detailVars

\* Mutant of afterTabQuery: a rejected tab query is reported as the error
\* of the send.
afterTabQueryReported(G, id, tab, computeLevel, urlFound) ==
    IF tab \in {"pdf", "page"} THEN Suspended(G, "pageRead")
    ELSE IF tab = "error"
        THEN Suspended(
               updateAssistantTurn(G, id, <<"net">>, TRUE, TRUE, FALSE), "done")
    ELSE afterPage(G, id, computeLevel, urlFound)

\* lines 329-358: after chrome.tabs.query.  tab is "pdf" or "page" (a tab
\* whose content is then read), "none" (no tab, or a chrome:// URL) or
\* "error" (the query rejected and the catch of line 355 took over).
afterTabQuery(G, id, tab, computeLevel, urlFound) ==
    IF tab \in {"pdf", "page"} THEN Suspended(G, "pageRead")
    ELSE afterPage(G, id, computeLevel, urlFound)

\* lines 329-358: chrome.tabs.query has settled.
TabQuerySettled(s, tab, computeLevel, urlFound) ==
    /\ pc[s] = "tabQuery"
    /\ Settle(s, afterTabQuery(Store, callId[s], tab, computeLevel, urlFound),
              chatMode[s], Message)
    /\ UNCHANGED <<nSends, callId, aborted, assistantIdx, terminal>>
    /\ UNCHANGED detailVars

\* lines 340-368: extractTextFromPdf or storage.getItem has settled
\* (fulfilled, or rejected and caught).
PageReadSettled(s, computeLevel, urlFound) ==
    /\ pc[s] = "pageRead"
    /\ Settle(s, afterPage(Store, callId[s], computeLevel, urlFound),
              chatMode[s], Message)
    /\ UNCHANGED <<nSends, callId, aborted, assistantIdx, terminal>>
    /\ UNCHANGED detailVars

\* ------------------------------------------- strategies and their callbacks

\* The strategy of send s is running: it was invoked, the await of it has
\* not settled and it has not made its terminal call.  Aborting its signal
\* is best-effort: the callbacks of an aborted strategy may still arrive.
Running(s) == pc[s] = "dispatch" /\ ~terminal[s]

\* What a callback of send s leaves in the send's own state.
Called(s, isTerminal) ==
    /\ terminal' = [terminal EXCEPT ![s] = isTerminal]
    /\ UNCHANGED <<nSends, callId, aborted, pc, chatMode, isLoading,
                   queryForProcessing, assistantIdx, strategy>>
    /\ UNCHANGED detailVars

\* lines 420, 432 and 475 with isFinished false and isError false.
OnChunk(s, update) ==
    /\ Running(s)
    /\ Commit(updateAssistantTurn(Store, callId[s], update, FALSE, FALSE, FALSE))
    /\ Called(s, FALSE)

\* lines 420, 432 and 475 with isFinished true and isError false.
OnFinished(s, update) ==
    /\ Running(s)
    /\ Commit(updateAssistantTurn(Store, callId[s], update, TRUE, FALSE, FALSE))
    /\ Called(s, TRUE)

\* line 475 with isError true: the streaming transport reports a failure.
OnError(s, message, isFinished) ==
    /\ Running(s)
    /\ strategy[s] = "direct"
    /\ Commit(updateAssistantTurn(Store, callId[s], message, isFinished, TRUE, FALSE))
    /\ Called(s, TRUE)

\* lines 423, 435 and 484: the awaited strategy call has returned.
DispatchReturned(s) ==
    /\ pc[s] = "dispatch"
    /\ pc' = [pc EXCEPT ![s] = "done"]
    /\ strategy' = [strategy EXCEPT ![s] = "none"]
    /\ terminal' = [terminal EXCEPT ![s] = FALSE]
    /\ isLoading' = [isLoading EXCEPT ![s] = FALSE]
    /\ UNCHANGED <<turns, loading, chatStatus, completionGuard,
                   abortControllerRef, nSends, callId, aborted, chatMode,
                   queryForProcessing, assistantIdx>>
    /\ UNCHANGED detailVars

\* lines 487-496: the cleanup of a send whose strategy threw after the
\* send's signal was aborted.
abortCleanup(G, s, id, wasLoading) ==
    LET G1 == [G EXCEPT !.loading = IF wasLoading THEN FALSE ELSE @,
                        !.chatStatus = "idle"]
        G2 == IF G1.completionGuard = id
                  THEN [G1 EXCEPT !.completionGuard = Null] ELSE G1
    IN  IF G2.abortControllerRef = s
            THEN [G2 EXCEPT !.abortControllerRef = Null] ELSE G2

\* lines 486-502: the awaited strategy call has thrown.
DispatchThrew(s, message) ==
    /\ Running(s)
    /\ Commit(IF s \in aborted
                  THEN abortCleanup(Store, s, callId[s], isLoading[s])
                  ELSE updateAssistantTurn(Store, callId[s], message,
                                           TRUE, TRUE, FALSE))
    /\ pc' = [pc EXCEPT ![s] = "done"]
    /\ strategy' = [strategy EXCEPT ![s] = "none"]
    /\ terminal' = [terminal EXCEPT ![s] = FALSE]
    /\ isLoading' = [isLoading EXCEPT ![s] = FALSE]
    /\ UNCHANGED <<nSends, callId, aborted, chatMode, queryForProcessing,
                   assistantIdx>>
    /\ UNCHANGED detailVars

\* ------------------------------------------------------------------ onStop

\* Mutant of onStop: the cancellation is applied whatever the guard slot
\* holds.
onStopCancelsAnyway(G) ==
    updateAssistantTurn(
        [G EXCEPT !.abortControllerRef = Null],
        G.completionGuard, CancelNotice, TRUE, FALSE, TRUE)

\* lines 506-520
onStop(G) ==
    IF G.completionGuard # Null
        THEN updateAssistantTurn(
               [G EXCEPT !.abortControllerRef = Null],
               G.completionGuard, CancelNotice, TRUE, FALSE, TRUE)
        ELSE [G EXCEPT !.loading = FALSE, !.chatStatus = "idle"]

\* Mutant of abortedByStop: the stored controller is dropped, not aborted.
abortedByStopNever(G) == {}

\* lines 510-511: the controller onStop aborts.
abortedByStop(G) ==
    IF G.completionGuard # Null /\ G.abortControllerRef # Null
        THEN {G.abortControllerRef} ELSE {}

OnStop ==
    /\ Commit(onStop(Store))
    /\ aborted' = aborted \cup abortedByStop(Store)
    /\ UNCHANGED <<nSends, callId, pc, chatMode, isLoading,
                   queryForProcessing, assistantIdx, strategy, terminal>>
    /\ UNCHANGED detailVars

\* ------------------------------------------------------------ specification

Init ==
    /\ turns = << >>
    /\ loading = FALSE
    /\ chatStatus = "idle"
    /\ completionGuard = Null
    /\ abortControllerRef = Null
    /\ nSends = 0
    /\ callId = [s \in Sends |-> Null]
    /\ aborted = {}
    /\ pc = [s \in Sends |-> "idle"]
    /\ chatMode = [s \in Sends |-> "chat"]
    /\ isLoading = [s \in Sends |-> FALSE]
    /\ queryForProcessing = [s \in Sends |-> Message]
    /\ assistantIdx = [s \in Sends |-> 0]
    /\ strategy = [s \in Sends |-> "none"]
    /\ terminal = [s \in Sends |-> FALSE]
    /\ scrapes = << >>
    /\ scrapedContent = << >>
    /\ tabKind = ""
    /\ pageContent = << >>
    /\ queryDisplayKind = ""
    /\ NoPrompt
    /\ chunks = << >>
    /\ NoInput
    /\ NoSpeech

Next ==
    \/ \E mode \in ChatModes, hasUrls, sameTick, modelFound, urlFound \in BOOLEAN,
          computeLevel \in ComputeLevels :
          OnSend(mode, hasUrls, sameTick, modelFound, computeLevel, urlFound)
    \/ \E configMissing \in BOOLEAN : OnSendRejected(configMissing)
    \/ \E s \in Sends, modelFound, urlFound \in BOOLEAN,
          computeLevel \in ComputeLevels :
          ScrapeSettled(s, modelFound, computeLevel, urlFound)
    \/ \E s \in Sends, rejected \in BOOLEAN,
          optimizedQuery \in OptimizerResults :
          OptimizeSettled(s, rejected, optimizedQuery)
    \/ \E s \in Sends, outcome \in {"ok", "abortError", "error"},
          urlFound \in BOOLEAN, computeLevel \in ComputeLevels :
          SearchSettled(s, outcome, computeLevel, urlFound)
    \/ \E s \in Sends, tab \in {"pdf", "page", "none", "error"},
          urlFound \in BOOLEAN, computeLevel \in ComputeLevels :
          TabQuerySettled(s, tab, computeLevel, urlFound)
    \/ \E s \in Sends, urlFound \in BOOLEAN, computeLevel \in ComputeLevels :
          PageReadSettled(s, computeLevel, urlFound)
    \/ \E s \in Sends, update \in Payloads : OnChunk(s, update)
    \/ \E s \in Sends, update \in Payloads : OnFinished(s, update)
    \/ \E s \in Sends, message \in ErrorMessages, isFinished \in BOOLEAN :
          OnError(s, message, isFinished)
    \/ \E s \in Sends : DispatchReturned(s)
    \/ \E s \in Sends, message \in ErrorMessages : DispatchThrew(s, message)
    \/ OnStop

Spec == Init /\ [][Next]_vars

\* ------------------------------------------------- the scrapes of one send

\* line 207: the text made of the content scraped from the i-th URL.
ContentFrom(i) ==
    <<"Content from [url 1]", "Content from [url 2]",
      "Content from [url 3]", "Content from [url 4]">>[i]

\* Mutant of scrapedContentOf: the URLs that were scraped are kept and the
\* placeholder stands for the ones that failed.
scrapedContentPartial(results) ==
    [i \in 1..Len(results) |->
        IF results[i] = "fulfilled"
            THEN ContentFrom(i) ELSE ScrapeErrorFragment[1]]

\* lines 202-211: Promise.all rejects as soon as one scrape has rejected and
\* the catch substitutes the placeholder; otherwise the contents are joined,
\* one piece per URL.
scrapedContentOf(results) ==
    IF \E i \in 1..Len(results) : results[i] = "rejected"
        THEN ScrapeErrorFragment
        ELSE [i \in 1..Len(results) |-> ContentFrom(i)]

\* line 203: Promise.all has settled: every scrape has fulfilled, or one has
\* rejected (the others may still be pending).
promiseAllSettled(results) ==
    \/ \A i \in 1..Len(results) : results[i] = "fulfilled"
    \/ \E i \in 1..Len(results) : results[i] = "rejected"

\* The turns the hook is handed at construction: none, or an earlier
\* exchange.
EarlierTurns ==
    {<< >>,
     << [role |-> "user", rawContent |-> <<"msg">>, status |-> "complete",
         webDisplayContent |-> ""],
        [role |-> "assistant", rawContent |-> <<"a">>, status |-> "complete",
         webDisplayContent |-> ""] >>}

\* lines 154-204: the state in which the first onSend, called with a message
\* that contains URLs, awaits its scrapes.
ScrapeInit ==
    \E mode \in ChatModes, n \in 1..MaxUrls, earlier \in EarlierTurns :
        LET G0 == [turns |-> earlier, loading |-> FALSE, chatStatus |-> "idle",
                   completionGuard |-> Null, abortControllerRef |-> Null]
            G1 == [beginSend(G0, 1, 1, mode) EXCEPT !.chatStatus = "searching"]
        IN  /\ turns = G1.turns
            /\ loading = G1.loading
            /\ chatStatus = G1.chatStatus
            /\ completionGuard = G1.completionGuard
            /\ abortControllerRef = G1.abortControllerRef
            /\ nSends = 1
            /\ callId = [s \in Sends |-> IF s = 1 THEN 1 ELSE Null]
            /\ aborted = {}
            /\ pc = [s \in Sends |-> IF s = 1 THEN "scrape" ELSE "idle"]
            /\ chatMode = [s \in Sends |-> IF s = 1 THEN mode ELSE "chat"]
            /\ isLoading = [s \in Sends |-> FALSE]
            /\ queryForProcessing = [s \in Sends |-> Message]
            /\ assistantIdx = [s \in Sends |-> 0]
            /\ strategy = [s \in Sends |-> "none"]
            /\ terminal = [s \in Sends |-> FALSE]
            /\ scrapes = [i \in 1..n |-> "pending"]
            /\ scrapedContent = << >>
            /\ tabKind = ""
            /\ pageContent = << >>
            /\ queryDisplayKind = ""
            /\ NoPrompt
            /\ chunks = << >>
            /\ NoInput
            /\ NoSpeech

\* line 204: scrapeUrlContent of the i-th URL fulfils, or rejects.
UrlScrapeSettled(i, outcome) ==
    /\ i \in 1..Len(scrapes)
    /\ scrapes[i] = "pending"
    /\ scrapes' = [scrapes EXCEPT ![i] = outcome]
    /\ UNCHANGED <<turns, loading, chatStatus, completionGuard,
                   abortControllerRef, nSends, callId, aborted, pc, chatMode,
                   isLoading, queryForProcessing, assistantIdx, strategy,
                   terminal, scrapedContent>>
    /\ UNCHANGED <<stageVars, promptVars, streamVars, uiVars>>

\* lines 203-213 and on: onSend resumes from Promise.all, keeps the scraped
\* fragment and goes on to the turn pair and the later stages.
ScrapeResumed(modelFound, computeLevel, urlFound) ==
    /\ pc[1] = "scrape"
    /\ promiseAllSettled(scrapes)
    /\ scrapedContent' = scrapedContentOf(scrapes)
    /\ LET G1 == [Store EXCEPT !.chatStatus = "thinking"]
           R == afterScrape(G1, callId[1], chatMode[1], modelFound,
                            computeLevel, urlFound)
       IN  /\ Settle(1, R, chatMode[1], Message)
           /\ assistantIdx' = [assistantIdx EXCEPT ![1] = Len(turns) + 2]
    /\ UNCHANGED <<nSends, callId, aborted, terminal, scrapes>>
    /\ UNCHANGED <<stageVars, promptVars, streamVars, uiVars>>

ScrapeNext ==
    \/ \E i \in 1..MaxUrls, outcome \in {"fulfilled", "rejected"} :
          UrlScrapeSettled(i, outcome)
    \/ \E modelFound, urlFound \in BOOLEAN, computeLevel \in ComputeLevels :
          ScrapeResumed(modelFound, computeLevel, urlFound)

ScrapeSpec == ScrapeInit /\ [][ScrapeNext]_vars

\* ------------------------------------------------- the stages of one send

PageText == <<"page text">>
PageAccessError == <<"Error accessing page content: ", "net">>
PdfExtractError == <<"Error extracting PDF content: ", "net", ". Falling back.">>

\* lines 154-329: the state in which the first onSend, its model configured,
\* awaits the first collaborator of its pipeline: the scrapes of n URLs, or,
\* the message containing no URL, the query optimizer (web mode) or
\* chrome.tabs.query (page mode).
StageInit ==
    \E mode \in ChatModes, n \in 0..MaxUrls, earlier \in EarlierTurns :
        LET G0 == [turns |-> earlier, loading |-> FALSE, chatStatus |-> "idle",
                   completionGuard |-> Null, abortControllerRef |-> Null]
            G1 == beginSend(G0, 1, 1, mode)
            R == IF n > 0
                     THEN Suspended([G1 EXCEPT !.chatStatus = "searching"], "scrape")
                     ELSE afterScrape(G1, 1, mode, TRUE, "high", TRUE)
        IN  /\ R.pc \in {"scrape", "optimize", "tabQuery"}
            /\ turns = R.G.turns
            /\ loading = R.G.loading
            /\ chatStatus = R.G.chatStatus
            /\ completionGuard = R.G.completionGuard
            /\ abortControllerRef = R.G.abortControllerRef
            /\ nSends = 1
            /\ callId = [s \in Sends |-> IF s = 1 THEN 1 ELSE Null]
            /\ aborted = {}
            /\ pc = [s \in Sends |-> IF s = 1 THEN R.pc ELSE "idle"]
            /\ chatMode = [s \in Sends |-> IF s = 1 THEN mode ELSE "chat"]
            /\ isLoading = [s \in Sends |-> FALSE]
            /\ queryForProcessing = [s \in Sends |-> Message]
            /\ assistantIdx = [s \in Sends |->
                   IF s = 1 /\ n = 0 THEN Len(earlier) + 2 ELSE 0]
            /\ strategy = [s \in Sends |-> "none"]
            /\ terminal = [s \in Sends |-> FALSE]
            /\ scrapes = [i \in 1..n |-> "pending"]
            /\ scrapedContent = << >>
            /\ tabKind = ""
            /\ pageContent = << >>
            /\ queryDisplayKind = ""
            /\ NoPrompt
            /\ chunks = << >>
            /\ NoInput
            /\ NoSpeech

\* lines 263-274: the label of processedQueryDisplay.
queryDisplayAfterOptimize(message, rejected, optimizedQuery) ==
    IF rejected THEN "fallback"
    ELSE IF queryAfterOptimize(message, rejected, optimizedQuery) # message
        THEN "optimized"
    ELSE "original"

\* lines 254-284: the query optimizer of the send has settled; the display
\* of the query is prepared and the web search called.
QueryOptimized(rejected, optimizedQuery) ==
    /\ pc[1] = "optimize"
    /\ Settle(1, Suspended([Store EXCEPT !.chatStatus = "searching"], "search"),
              chatMode[1],
              queryAfterOptimize(Message, rejected, optimizedQuery))
    /\ queryDisplayKind' =
           queryDisplayAfterOptimize(Message, rejected, optimizedQuery)
    /\ UNCHANGED <<nSends, callId, aborted, assistantIdx, terminal>>
    /\ UNCHANGED <<scrapeVars, tabKind, pageContent, promptVars, streamVars, uiVars>>

\* lines 284-307 and on: the web search of the send has settled; the signal
\* of the send is not aborted.
WebSearched(outcome, computeLevel, urlFound) ==
    /\ pc[1] = "search"
    /\ Settle(1, afterSearch(Store, callId[1], FALSE, outcome,
                             computeLevel, urlFound),
              chatMode[1], Message)
    /\ UNCHANGED <<nSends, callId, aborted, assistantIdx, terminal>>
    /\ UNCHANGED detailVars

\* lines 325-366: the page fragment when no content is to be read: empty
\* without a tab, the message of line 357 when the query rejected.
pageContentAfterTabQuery(tab) ==
    IF tab = "error" THEN PageAccessError ELSE << >>

\* lines 329-371: chrome.tabs.query of the send has settled.
TabQueried(tab, computeLevel, urlFound) ==
    /\ pc[1] = "tabQuery"
    /\ Settle(1, afterTabQuery(Store, callId[1], tab, computeLevel, urlFound),
              chatMode[1], Message)
    /\ tabKind' = IF tab \in {"pdf", "page"} THEN tab ELSE ""
    /\ pageContent' = IF tab \in {"pdf", "page"} THEN pageContent
                      ELSE pageContentAfterTabQuery(tab)
    /\ UNCHANGED <<nSends, callId, aborted, assistantIdx, terminal>>
    /\ UNCHANGED <<scrapeVars, queryDisplayKind, promptVars, streamVars, uiVars>>

\* lines 337-358: the page fragment after the read of the tab's content: the
\* text read (nothing when the storage holds none); the message of line 344
\* when the PDF extraction rejected, of line 357 when the storage read did.
pageContentAfterRead(kind, rejected, text) ==
    IF ~rejected THEN text
    ELSE IF kind = "pdf" THEN PdfExtractError
    ELSE PageAccessError

\* lines 340-368: extractTextFromPdf or storage.getItem of the send has
\* settled.
PageRead(rejected, text, computeLevel, urlFound) ==
    /\ pc[1] = "pageRead"
    /\ Settle(1, afterPage(Store, callId[1], computeLevel, urlFound),
              chatMode[1], Message)
    /\ pageContent' = pageContentAfterRead(tabKind, rejected, text)
    /\ UNCHANGED <<nSends, callId, aborted, assistantIdx, terminal>>
    /\ UNCHANGED <<scrapeVars, tabKind, queryDisplayKind, promptVars, streamVars, uiVars>>

StageNext ==
    \/ \E i \in 1..MaxUrls, outcome \in {"fulfilled", "rejected"} :
          UrlScrapeSettled(i, outcome)
    \/ \E modelFound, urlFound \in BOOLEAN, computeLevel \in ComputeLevels :
          ScrapeResumed(modelFound, computeLevel, urlFound)
    \/ \E rejected \in BOOLEAN, optimizedQuery \in OptimizerResults :
          QueryOptimized(rejected, optimizedQuery)
    \/ \E outcome \in {"ok", "error"}, urlFound \in BOOLEAN,
          computeLevel \in ComputeLevels :
          WebSearched(outcome, computeLevel, urlFound)
    \/ \E tab \in {"pdf", "page", "none", "error"}, urlFound \in BOOLEAN,
          computeLevel \in ComputeLevels :
          TabQueried(tab, computeLevel, urlFound)
    \/ \E rejected \in BOOLEAN, text \in {<< >>, PageText},
          urlFound \in BOOLEAN, computeLevel \in ComputeLevels :
          PageRead(rejected, text, computeLevel, urlFound)

StageSpec == StageInit /\ [][StageNext]_vars

\* ------------------------------------------------- the prompt of one send

\* config.webLimit and config.contextLimit, in thousands of characters; 0
\* stands for a limit that is not set.  128 is the value the code compares
\* the limits with.
Unlimited == 128
Limits == {0, 1, 2, 5, Unlimited}

\* The lengths of the search result and of the page text.
Lengths == {0, 400, 1000, 5000, 10000, 200000}

\* config.userName, trimmed.
UserNames == {"", "User", "Ann"}

toLowerCase(name) == IF name = "User" THEN "user" ELSE name

Min(a, b) == IF a <= b THEN a ELSE b

\* String.prototype.substring(0, end), end >= 0.
substring(text, end) ==
    Slice(text.from, text.from + Min(Length(text), end))

limitedWebResultByCharacters(limit, searchRes) ==
    IF limit = Unlimited THEN searchRes ELSE substring(searchRes, limit)

\* Lines 310-314: webContentForLlm.
limitedWebResult(limit, searchRes) ==
    LET webLimit == 1000 * (IF limit # 0 THEN limit ELSE 1)
        limited == IF webLimit # 0
                   THEN substring(searchRes, webLimit)
                   ELSE searchRes
    IN  IF limit = Unlimited THEN searchRes ELSE limited

\* Lines 360-365: pageContentForLlm.
limitedContent(limit, currentPageContent) ==
    LET charLimit == 1000 * (IF limit # 0 THEN limit ELSE 1)
        safeCurrentPageContent == currentPageContent
        limited == IF charLimit # 0 /\ Length(safeCurrentPageContent) # 0
                   THEN substring(safeCurrentPageContent, charLimit)
                   ELSE safeCurrentPageContent
    IN  IF limit = Unlimited THEN safeCurrentPageContent ELSE limited

\* Lines 384-396: whether userContextStatement is not empty.
hasUserContext(userName, hasProfile) ==
    \/ userName # "" /\ toLowerCase(userName) # "user"
    \/ hasProfile

Part(present, kind) == IF present THEN <<kind>> ELSE << >>

systemPromptPartsNoteFirst(in, page, web) ==
    Part(in.useNote /\ in.noteContent, "note")
        \o Part(in.persona, "persona")
        \o Part(hasUserContext(in.userName, in.userProfile), "user")
        \o Part(in.mode = "page" /\ Length(page) # 0, "page")
        \o Part(in.mode = "web" /\ Length(web) # 0, "web")
        \o Part(in.scrapedContent, "scraped")

\* Lines 373-403: the parts pushed to systemPromptParts, each by its kind.
systemPromptPartsOf(in, page, web) ==
    Part(in.persona, "persona")
        \o Part(hasUserContext(in.userName, in.userProfile), "user")
        \o Part(in.useNote /\ in.noteContent, "note")
        \o Part(in.mode = "page" /\ Length(page) # 0, "page")
        \o Part(in.mode = "web" /\ Length(web) # 0, "web")
        \o Part(in.scrapedContent, "scraped")

\* The hook before any send.
NoSend ==
    /\ turns = << >>
    /\ loading = FALSE
    /\ chatStatus = "idle"
    /\ completionGuard = Null
    /\ abortControllerRef = Null
    /\ nSends = 0
    /\ callId = [s \in Sends |-> Null]
    /\ aborted = {}
    /\ pc = [s \in Sends |-> "idle"]
    /\ chatMode = [s \in Sends |-> "chat"]
    /\ isLoading = [s \in Sends |-> FALSE]
    /\ queryForProcessing = [s \in Sends |-> Message]
    /\ assistantIdx = [s \in Sends |-> 0]
    /\ strategy = [s \in Sends |-> "none"]
    /\ terminal = [s \in Sends |-> FALSE]

\* One send past its search, with what its prompt is built from: the search
\* result is empty unless the mode is web (line 279), the page text is read
\* only in page mode (line 323).
PromptInit ==
    /\ \E mode \in ChatModes, webLimit \in Limits, contextLimit \in Limits,
          length \in Lengths, userName \in UserNames,
          persona \in BOOLEAN, userProfile \in BOOLEAN, useNote \in BOOLEAN,
          noteContent \in BOOLEAN, scraped \in BOOLEAN :
            promptInput =
                [mode |-> mode, webLimit |-> webLimit,
                 contextLimit |-> contextLimit,
                 searchRes |-> IF mode = "web" THEN Slice(0, length)
                               ELSE EmptyText,
                 currentPageContent |-> IF mode = "page"
                                        THEN Slice(0, length) ELSE EmptyText,
                 persona |-> persona, userName |-> userName,
                 userProfile |-> userProfile, useNote |-> useNote,
                 noteContent |-> noteContent, scrapedContent |-> scraped]
    /\ webContentForLlm = EmptyText
    /\ pageContentForLlm = EmptyText
    /\ systemPromptParts = << >>
    /\ promptAt = "web"
    /\ chunks = << >>
    /\ NoInput
    /\ NoSpeech
    /\ NoSend
    /\ scrapes = << >>
    /\ scrapedContent = << >>
    /\ tabKind = ""
    /\ pageContent = << >>
    /\ queryDisplayKind = ""

mainVars == <<turns, loading, chatStatus, completionGuard, abortControllerRef,
              nSends, callId, aborted, pc, chatMode, isLoading,
              queryForProcessing, assistantIdx, strategy, terminal>>

\* Lines 309-314.
WebLimited ==
    /\ promptAt = "web"
    /\ webContentForLlm' =
           limitedWebResult(promptInput.webLimit, promptInput.searchRes)
    /\ promptAt' = "page"
    /\ UNCHANGED <<promptInput, pageContentForLlm, systemPromptParts,
                   mainVars, scrapeVars, stageVars, streamVars, uiVars>>

\* Lines 323 and 360-371.
PageLimited ==
    /\ promptAt = "page"
    /\ pageContentForLlm' =
           IF promptInput.mode = "page"
           THEN limitedContent(promptInput.contextLimit,
                               promptInput.currentPageContent)
           ELSE EmptyText
    /\ promptAt' = "compose"
    /\ UNCHANGED <<promptInput, webContentForLlm, systemPromptParts,
                   mainVars, scrapeVars, stageVars, streamVars, uiVars>>

\* Lines 373-405.
PromptComposed ==
    /\ promptAt = "compose"
    /\ systemPromptParts' =
           systemPromptPartsOf(promptInput, pageContentForLlm,
                               webContentForLlm)
    /\ promptAt' = "composed"
    /\ UNCHANGED <<promptInput, webContentForLlm, pageContentForLlm,
                   mainVars, scrapeVars, stageVars, streamVars, uiVars>>

PromptNext ==
    \/ WebLimited
    \/ PageLimited
    \/ PromptComposed

PromptSpec == PromptInit /\ [][PromptNext]_vars

\* ------------------------------------------------- the stream of one send

\* What the transport reads from the stream between two callbacks.
Deltas == {"a", "b", "c"}

MaxChunks == 3

\* The text the transport has accumulated.
accumulated == IF chunks = << >> THEN << >> ELSE Last(chunks)

\* The hook before a send, with no turns or an earlier exchange.
StreamInit ==
    /\ \E earlier \in EarlierTurns : turns = earlier
    /\ loading = FALSE
    /\ chatStatus = "idle"
    /\ completionGuard = Null
    /\ abortControllerRef = Null
    /\ nSends = 0
    /\ callId = [s \in Sends |-> Null]
    /\ aborted = {}
    /\ pc = [s \in Sends |-> "idle"]
    /\ chatMode = [s \in Sends |-> "chat"]
    /\ isLoading = [s \in Sends |-> FALSE]
    /\ queryForProcessing = [s \in Sends |-> Message]
    /\ assistantIdx = [s \in Sends |-> 0]
    /\ strategy = [s \in Sends |-> "none"]
    /\ terminal = [s \in Sends |-> FALSE]
    /\ scrapes = << >>
    /\ scrapedContent = << >>
    /\ tabKind = ""
    /\ pageContent = << >>
    /\ queryDisplayKind = ""
    /\ NoPrompt
    /\ chunks = << >>
    /\ NoInput
    /\ NoSpeech

\* onSend in chat mode with a message without URLs, a model that is found, the
\* default compute level and a host with an endpoint.
ChatSent ==
    /\ nSends = 0
    /\ OnSend("chat", FALSE, FALSE, TRUE, "low", TRUE)

\* What a callback of the transport leaves in the state of the send.
StreamCalled(isTerminal) ==
    /\ terminal' = [terminal EXCEPT ![1] = isTerminal]
    /\ UNCHANGED <<nSends, callId, aborted, pc, chatMode, isLoading,
                   queryForProcessing, assistantIdx, strategy>>
    /\ UNCHANGED <<scrapeVars, stageVars, promptVars, uiVars>>

\* line 475 with isFinished false: the transport hands over the text it has
\* accumulated so far.
ChunkArrived(delta) ==
    /\ Running(1)
    /\ Len(chunks) < MaxChunks
    /\ chunks' = Append(chunks, accumulated \o <<delta>>)
    /\ Commit(updateAssistantTurn(Store, callId[1], accumulated \o <<delta>>,
                                  FALSE, FALSE, FALSE))
    /\ StreamCalled(FALSE)

\* line 475 with isFinished true: the stream has ended and the transport hands
\* over the whole text.
StreamFinished ==
    /\ Running(1)
    /\ Commit(updateAssistantTurn(Store, callId[1], accumulated,
                                  TRUE, FALSE, FALSE))
    /\ StreamCalled(TRUE)
    /\ UNCHANGED chunks

StreamNext ==
    \/ ChatSent
    \/ \E delta \in Deltas : ChunkArrived(delta)
    \/ StreamFinished
    \/ DispatchReturned(1)

StreamSpec == StreamInit /\ [][StreamNext]_vars

\* ------------------------------------------------------ the Input component

\* The values of the message prop: empty, blank, and with text.
InputMessages == {<< >>, <<" ">>, <<" ", " ">>, <<"hi">>, <<" ", "hi", " ">>}

Keys == {"Enter", "a"}

MaxCalls == 2

\* The record of one call of a handler: its name and the event it came from.
CallsFrom(handlers, event) ==
    [i \in 1..Len(handlers) |-> [handler |-> handlers[i], event |-> event]]

\* The component is rendered for the first time, with any props.
InputInit ==
    /\ inputIsLoading \in BOOLEAN
    /\ inputMessage \in InputMessages
    /\ called = << >>
    /\ NoSpeech
    /\ NoPrompt
    /\ chunks = << >>
    /\ NoSend
    /\ scrapes = << >>
    /\ scrapedContent = << >>
    /\ tabKind = ""
    /\ pageContent = << >>
    /\ queryDisplayKind = ""

InputFrame ==
    UNCHANGED <<mainVars, scrapeVars, stageVars, promptVars, streamVars,
                speechVars>>

\* The parent has rendered the component again, with new props.
Rendered(loadingProp, messageProp) ==
    /\ inputIsLoading' = loadingProp
    /\ inputMessage' = messageProp
    /\ UNCHANGED called
    /\ InputFrame

\* part_002 lines 139-147: the handlers handleSendClick calls.
handleSendClick(loadingProp, messageProp) ==
    IF loadingProp THEN <<"onStopRequest">>
    ELSE IF ~isBlank(messageProp) THEN <<"onSend">>
    ELSE << >>

\* Mutant of handleTextareaKeyDown: the Enter key sends while loading too.
keyDownWhileLoading(loadingProp, messageProp, key, altKey, metaKey, shiftKey) ==
    IF key = "Enter" /\ ~isBlank(messageProp)
       /\ ~altKey /\ ~metaKey /\ ~shiftKey
        THEN <<"onSend">>
    ELSE << >>

\* part_002 lines 149-156: the handlers handleTextareaKeyDown calls.
handleTextareaKeyDown(loadingProp, messageProp, key, altKey, metaKey, shiftKey) ==
    IF loadingProp THEN << >>
    ELSE IF key = "Enter" /\ ~isBlank(messageProp)
            /\ ~altKey /\ ~metaKey /\ ~shiftKey
        THEN <<"onSend">>
    ELSE << >>

\* part_002 lines 228-229: a click on the send button, which is disabled
\* while not loading with a blank message.
SendClicked ==
    /\ Len(called) < MaxCalls
    /\ ~(~inputIsLoading /\ isBlank(inputMessage))
    /\ called' = called \o CallsFrom(
           handleSendClick(inputIsLoading, inputMessage), "click")
    /\ UNCHANGED <<inputIsLoading, inputMessage>>
    /\ InputFrame

\* part_002 line 175: a key is pressed in the text area.
KeyPressed(key, altKey, metaKey, shiftKey) ==
    /\ Len(called) < MaxCalls
    /\ called' = called \o CallsFrom(
           handleTextareaKeyDown(inputIsLoading, inputMessage,
                                 key, altKey, metaKey, shiftKey), "key")
    /\ UNCHANGED <<inputIsLoading, inputMessage>>
    /\ InputFrame

InputNext ==
    \/ \E loadingProp \in BOOLEAN, messageProp \in InputMessages :
          Rendered(loadingProp, messageProp)
    \/ SendClicked
    \/ \E key \in Keys, altKey, metaKey, shiftKey \in BOOLEAN :
          KeyPressed(key, altKey, metaKey, shiftKey)

InputSpec == InputInit /\ [][InputNext]_vars

\* ------------------------------------------------------- the speech module

\* The texts handed to speakMessage: empty, and with words.
Texts == {"", "hi"}

MaxUtterances == 3

\* How a call of resumeSpeech goes: nothing throws, speechSynthesis.resume()
\* throws, or the resume callback throws.
ResumeOutcomes == {"resumed", "resumeThrew", "callbackThrew"}

\* An utterance is utterances[u]: the speakMessage call whose callbacks were
\* current when it was made, the utterance its handlers close over (itself,
\* but for the utterance of the resume fallback, which takes the handlers of
\* another), its text, whether it is in the synthesizer's queue on the page's
\* side, and where the speech engine is with it.
Utterance(call, closure, text) ==
    [call |-> call, closure |-> closure, text |-> text,
     queued |-> TRUE, engine |-> "waiting"]

\* window.speechSynthesis.speaking: the queue has an utterance.
isCurrentlySpeaking == \E u \in DOMAIN utterances : utterances[u].queued

\* window.speechSynthesis.pending: the queue has an utterance behind the
\* first.
pending ==
    \E u, v \in DOMAIN utterances :
        u # v /\ utterances[u].queued /\ utterances[v].queued

\* window.speechSynthesis.cancel(): the queue is emptied; the engine hears
\* of it later.
cancel(us) == [u \in DOMAIN us |-> [us[u] EXCEPT !.queued = FALSE]]

\* The module's variables as they are.
Module ==
    [currentUtterance |-> currentUtterance, onEndCallback |-> onEndCallback,
     isSpeechPaused |-> isSpeechPaused, currentText |-> currentText,
     utterances |-> utterances, invocations |-> invocations]

\* part_002 lines 349-365: the module's variables after stopSpeech().
stopped ==
    IF currentUtterance = Null /\ ~isCurrentlySpeaking /\ ~pending
        THEN Module
    ELSE [currentUtterance |-> Null, onEndCallback |-> Null,
          isSpeechPaused |-> FALSE, currentText |-> "",
          utterances |-> cancel(utterances),
          invocations |->
              IF onEndCallback # Null
                  THEN Append(invocations,
                              [callback |-> onEndCallback, by |-> 0])
              ELSE invocations]

SpeechInit ==
    /\ NoSpeech
    /\ NoInput
    /\ NoPrompt
    /\ chunks = << >>
    /\ NoSend
    /\ scrapes = << >>
    /\ scrapedContent = << >>
    /\ tabKind = ""
    /\ pageContent = << >>
    /\ queryDisplayKind = ""

SpeechFrame ==
    UNCHANGED <<mainVars, scrapeVars, stageVars, promptVars, streamVars,
                inputVars>>

\* part_002 lines 283-347: speakMessage(text, , , callbacks).
speakMessage(text, hasOnEnd) ==
    /\ Len(utterances) < MaxUtterances
    /\ LET m == IF isCurrentlySpeaking \/ pending THEN stopped ELSE Module
           u == Len(utterances) + 1
       IN  /\ currentUtterance' = m.currentUtterance
           /\ isSpeechPaused' = m.isSpeechPaused
           /\ currentText' = m.currentText
           /\ invocations' = m.invocations
           /\ onEndCallback' = IF hasOnEnd THEN u ELSE Null
           /\ utterances' = Append(m.utterances, Utterance(u, u, text))
    /\ UNCHANGED events
    /\ SpeechFrame

\* part_002 lines 349-365: stopSpeech().
stopSpeech ==
    /\ currentUtterance' = stopped.currentUtterance
    /\ onEndCallback' = stopped.onEndCallback
    /\ isSpeechPaused' = stopped.isSpeechPaused
    /\ currentText' = stopped.currentText
    /\ utterances' = stopped.utterances
    /\ invocations' = stopped.invocations
    /\ UNCHANGED events
    /\ SpeechFrame

\* part_002 lines 367-382: pauseSpeech(); threw says that the pause or the
\* pause callback has thrown.
pauseSpeech(threw) ==
    /\ currentUtterance # Null /\ isCurrentlySpeaking /\ ~isSpeechPaused
    /\ isSpeechPaused' = TRUE
    /\ currentText' = IF threw THEN utterances[currentUtterance].text
                      ELSE currentText
    /\ UNCHANGED <<currentUtterance, onEndCallback, utterances, events,
                   invocations>>
    /\ SpeechFrame

\* part_002 lines 384-411: resumeSpeech().
resumeSpeech(outcome) ==
    /\ isSpeechPaused
    /\ IF outcome # "resumed" /\ currentText # "" /\ currentUtterance # Null
           THEN /\ Len(utterances) < MaxUtterances
                /\ utterances' =
                       Append(cancel(utterances),
                              Utterance(utterances[currentUtterance].call,
                                        utterances[currentUtterance].closure,
                                        currentText))
                /\ currentUtterance' = Len(utterances) + 1
                /\ isSpeechPaused' = FALSE
       ELSE /\ isSpeechPaused' = (outcome = "resumeThrew")
            /\ UNCHANGED <<currentUtterance, utterances>>
    /\ UNCHANGED <<onEndCallback, currentText, events, invocations>>
    /\ SpeechFrame

\* The engine begins to speak utterance u, which speak() handed to it, and
\* sends the start event.  It may not have heard of a cancel() yet.
EngineStarted(u) ==
    /\ utterances[u].engine = "waiting"
    /\ \A v \in 1..(u - 1) : utterances[v].engine = "finished"
    /\ utterances' = [utterances EXCEPT ![u].engine = "speaking"]
    /\ events' = Append(events, <<u, "start">>)
    /\ UNCHANGED <<currentUtterance, onEndCallback, isSpeechPaused,
                   currentText, invocations>>
    /\ SpeechFrame

\* The engine is through with utterance u, spoken to its end or broken off,
\* and sends the end or the error event.
EngineFinished(u, kind) ==
    /\ utterances[u].engine = "speaking"
    /\ utterances' = [utterances EXCEPT ![u].engine = "finished"]
    /\ events' = Append(events, <<u, kind>>)
    /\ UNCHANGED <<currentUtterance, onEndCallback, isSpeechPaused,
                   currentText, invocations>>
    /\ SpeechFrame

\* The engine drops utterance u, cancelled before it was begun, and sends
\* the error event.
EngineCancelled(u) ==
    /\ utterances[u].engine = "waiting"
    /\ ~utterances[u].queued
    /\ utterances' = [utterances EXCEPT ![u].engine = "finished"]
    /\ events' = Append(events, <<u, "error">>)
    /\ UNCHANGED <<currentUtterance, onEndCallback, isSpeechPaused,
                   currentText, invocations>>
    /\ SpeechFrame

\* part_002 lines 316-344: the page receives the oldest event: an end or an
\* error takes the utterance from the queue, and the utterance's handler
\* runs.
Delivered ==
    /\ events # << >>
    /\ LET u == Head(events)[1]
           kind == Head(events)[2]
           utterance == utterances[u].closure
       IN  IF kind = "start"
               THEN /\ currentUtterance' = utterance
                    /\ UNCHANGED <<onEndCallback, utterances, invocations>>
           ELSE /\ utterances' = [utterances EXCEPT ![u].queued = FALSE]
                /\ IF currentUtterance = utterance
                       THEN /\ currentUtterance' = Null
                            /\ invocations' =
                                   IF onEndCallback # Null
                                       THEN Append(invocations,
                                                [callback |-> onEndCallback,
                                                 by |-> u])
                                   ELSE invocations
                            /\ onEndCallback' = Null
                   ELSE UNCHANGED <<currentUtterance, onEndCallback,
                                    invocations>>
    /\ events' = Tail(events)
    /\ UNCHANGED <<isSpeechPaused, currentText>>
    /\ SpeechFrame

SpeechNext ==
    \/ \E text \in Texts, hasOnEnd \in BOOLEAN : speakMessage(text, hasOnEnd)
    \/ stopSpeech
    \/ \E threw \in BOOLEAN : pauseSpeech(threw)
    \/ \E outcome \in ResumeOutcomes : resumeSpeech(outcome)
    \/ \E u \in DOMAIN utterances : EngineStarted(u)
    \/ \E u \in DOMAIN utterances, kind \in {"end", "error"} :
          EngineFinished(u, kind)
    \/ \E u \in DOMAIN utterances : EngineCancelled(u)
    \/ Delivered

SpeechSpec == SpeechInit /\ [][SpeechNext]_vars

\* ------------------------------------------------------------------ steps

Started == 1..nSends

\* A strategy callback of send s that carries a terminal flag.
TerminalCallback(s) ==
    \/ \E update \in Payloads : OnFinished(s, update)
    \/ \E message \in ErrorMessages, isFinished \in BOOLEAN :
          OnError(s, message, isFinished)

\* The resumption of send s from an awaited pipeline stage.
StageResumed(s) ==
    \/ \E modelFound, urlFound \in BOOLEAN, computeLevel \in ComputeLevels :
          ScrapeSettled(s, modelFound, computeLevel, urlFound)
    \/ \E rejected \in BOOLEAN, optimizedQuery \in OptimizerResults :
          OptimizeSettled(s, rejected, optimizedQuery)
    \/ \E outcome \in {"ok", "abortError", "error"}, urlFound \in BOOLEAN,
          computeLevel \in ComputeLevels :
          SearchSettled(s, outcome, computeLevel, urlFound)
    \/ \E tab \in {"pdf", "page", "none", "error"}, urlFound \in BOOLEAN,
          computeLevel \in ComputeLevels :
          TabQuerySettled(s, tab, computeLevel, urlFound)
    \/ \E urlFound \in BOOLEAN, computeLevel \in ComputeLevels :
          PageReadSettled(s, computeLevel, urlFound)

\* Any step of send s after the one that started it.
SendStep(s) ==
    \/ StageResumed(s)
    \/ \E update \in Payloads : OnChunk(s, update)
    \/ TerminalCallback(s)
    \/ DispatchReturned(s)
    \/ \E message \in ErrorMessages : DispatchThrew(s, message)

\* Send s2 has superseded send s1: it was accepted later, under another
\* token, and its token is the one in the guard slot.
Supersedes(s2, s1) ==
    /\ s1 < s2 /\ s2 <= nSends
    /\ callId[s1] # callId[s2]
    /\ completionGuard = callId[s2]

\* ---------------------------------------------------------------- fairness

\* The awaited strategy call returns once the strategy has delivered its
\* terminal callback.
StrategyReturned(s) ==
    /\ terminal[s]
    /\ DispatchReturned(s)

\* The strategy of send s ends: it delivers its terminal callback, or its
\* call throws.
StrategyEnded(s) ==
    \/ TerminalCallback(s)
    \/ \E message \in ErrorMessages : DispatchThrew(s, message)

\* The steps of Spec in which no strategy call returns before the strategy
\* has delivered its terminal callback.
FairNext ==
    \/ \E mode \in ChatModes, hasUrls, sameTick, modelFound, urlFound \in BOOLEAN,
          computeLevel \in ComputeLevels :
          OnSend(mode, hasUrls, sameTick, modelFound, computeLevel, urlFound)
    \/ \E configMissing \in BOOLEAN : OnSendRejected(configMissing)
    \/ \E s \in Sends : StageResumed(s)
    \/ \E s \in Sends, update \in Payloads : OnChunk(s, update)
    \/ \E s \in Sends : StrategyEnded(s)
    \/ \E s \in Sends : StrategyReturned(s)
    \/ OnStop

\* Every awaited collaborator settles, every strategy that runs delivers its
\* terminal callback or throws, and a call that has not thrown returns.
\* Nothing obliges the user to send or to stop.
Fairness ==
    \A s \in Sends :
        /\ WF_vars(StageResumed(s))
        /\ WF_vars(StrategyEnded(s))
        /\ WF_vars(StrategyReturned(s))

FairSpec == Init /\ [][FairNext]_vars /\ Fairness

\* ----------------------------------------------------------------- claims

\* C1: once a second send has superseded the first, a terminal update
\* delivered with the first send's token changes neither the content nor the
\* status of the second send's assistant turn, and sets loading to false.
C1_SupersededTerminalIgnored ==
    [][\A s1, s2 \in Sends :
          (Supersedes(s2, s1) /\ assistantIdx[s2] # 0 /\ TerminalCallback(s1))
          => /\ turns'[assistantIdx[s2]] = turns[assistantIdx[s2]]
             /\ loading' = FALSE]_vars

\* C2: a non-terminal update whose token differs from the value of the guard
\* slot (the empty slot included) leaves the Turn Store, loading, the chat
\* status, the guard slot and the stored controller unchanged.
C2_StaleChunkChangesNothing ==
    \A s \in Started, update \in Payloads :
        (Running(s) /\ callId[s] # completionGuard)
        => updateAssistantTurn(Store, callId[s], update, FALSE, FALSE, FALSE)
           = Store

\* C2 witness: a strategy is running under a token that is not the one in
\* the slot, both when another send holds the slot and when it is empty.
C2_Witness ==
    \E s \in Started :
        /\ Running(s)
        /\ completionGuard # callId[s]
        /\ completionGuard # Null
        /\ Len(turns) > 0 /\ Last(turns).status = "streaming"
        /\ Last(turns).rawContent # << >>

\* C3: an assistant turn with status complete, error or cancelled keeps its
\* status and content in every later step.
C3_TerminalAbsorbing ==
    [][\A i \in 1..Len(turns) :
          (turns[i].role = "assistant" /\ turns[i].status \in TerminalStatus)
          => /\ i <= Len(turns')
             /\ turns'[i].status = turns[i].status
             /\ turns'[i].rawContent = turns[i].rawContent]_vars

\* C4: onStop called while a send holds the guard and the last turn is an
\* assistant turn leaves that turn cancelled, its content being the content
\* it had, a space when that content was not empty, and the cancellation
\* notice; the other turns are unchanged.
C4_StopAppendsNotice ==
    [][(OnStop /\ completionGuard # Null
               /\ Len(turns) > 0 /\ Last(turns).role = "assistant")
       => turns' = Append(Front(turns),
              [Last(turns) EXCEPT
                  !.status = "cancelled",
                  !.rawContent =
                      IF Last(turns).rawContent = << >> THEN CancelNotice
                      ELSE Last(turns).rawContent \o <<" ">> \o CancelNotice])]_vars

\* C4 witness: a turn that was streamed into and then stopped.
C4_Witness ==
    /\ Len(turns) > 0
    /\ Last(turns).status = "cancelled"
    /\ Last(turns).rawContent = <<"a", " ">> \o CancelNotice
    /\ completionGuard = Null

\* Delivering update twice in a row from the current state: the second
\* delivery leaves the turns as the first left them, and loading is false.
SecondDeliveryIsNoOp(id, update, isFinished, isError, isCancelled) ==
    LET G1 == updateAssistantTurn(Store, id, update, isFinished, isError, isCancelled)
        G2 == updateAssistantTurn(G1, id, update, isFinished, isError, isCancelled)
    IN  G2.turns = G1.turns /\ G2.loading = FALSE

\* C5: the same terminal update (finished, error or cancelled) delivered
\* twice with the same token changes the Turn Store only the first time, and
\* loading is false afterwards.
C5_TerminalIdempotent ==
    /\ \A s \in Started :
          Running(s) =>
             /\ \A update \in Payloads :
                   SecondDeliveryIsNoOp(callId[s], update, TRUE, FALSE, FALSE)
             /\ \A message \in ErrorMessages :
                   SecondDeliveryIsNoOp(callId[s], message, FALSE, TRUE, FALSE)
    /\ completionGuard # Null =>
          SecondDeliveryIsNoOp(completionGuard, CancelNotice, TRUE, FALSE, TRUE)

\* C6: a terminal update that arrives while the guard slot is empty leaves
\* the Turn Store unchanged and sets loading to false and the chat status to
\* idle, whatever its payload.
C6_LateTerminalKeepsTurns ==
    [][\A s \in Sends :
          (completionGuard = Null /\ TerminalCallback(s))
          => (turns' = turns /\ loading' = FALSE /\ chatStatus' = "idle")]_vars

\* C7: when onSend is accepted while a token is in the guard slot, that token
\* is the one of the latest send, whose controller is the stored one and is
\* aborted by the step; afterwards the slot and the stored controller are
\* empty or belong to the new send alone.
C7_SendAbortsPrevious ==
    [][(nSends' = nSends + 1 /\ completionGuard # Null)
       => /\ callId[nSends] = completionGuard
          /\ abortControllerRef = nSends
          /\ nSends \in aborted'
          /\ completionGuard' \in {Null, callId'[nSends']}
          /\ abortControllerRef' \in {Null, nSends'}]_vars

\* C7 witness: the second send holds the guard, the first is aborted and
\* still in flight.
C7_Witness ==
    /\ nSends = 2
    /\ 1 \in aborted /\ 2 \notin aborted
    /\ pc[1] \notin {"idle", "done"}
    /\ completionGuard = callId[2] /\ callId[2] # callId[1]
    /\ abortControllerRef = 2

\* C8: a step of send s (a terminal update, the cleanup after an aborted
\* dispatch) taken while the guard slot does not hold the token of s leaves
\* the slot and the stored controller unchanged.
C8_ReleaseOnlyOwnToken ==
    [][\A s \in Sends :
          (SendStep(s) /\ completionGuard # callId[s])
          => UNCHANGED <<completionGuard, abortControllerRef>>]_vars

\* C8 witness: the turn of the send that holds the guard was closed by a
\* terminal update of another token, and the guard is still held.
C8_Witness ==
    /\ nSends = 2
    /\ completionGuard = callId[2] /\ callId[2] # callId[1]
    /\ abortControllerRef = 2
    /\ pc[2] = "dispatch" /\ ~terminal[2]
    /\ assistantIdx[2] = Len(turns)
    /\ Last(turns).status \in {"complete", "error"}

\* C9: every accepted send has its user turn and its assistant placeholder in
\* the Turn Store from the step of the onSend call on.
C9_TurnPairAppendedAtOnce ==
    \A s \in Started :
        /\ assistantIdx[s] \in 2..Len(turns)
        /\ turns[assistantIdx[s]].role = "assistant"
        /\ turns[assistantIdx[s] - 1].role = "user"

\* C10: a send that resumes from an awaited stage with its signal aborted
\* changes no turn and returns.
C10_AbortedResumeStops ==
    [][\A s \in Sends :
          (s \in aborted /\ StageResumed(s))
          => (turns' = turns /\ pc'[s] = "done")]_vars

\* C11: onStop called while the guard slot holds a token aborts the stored
\* controller, which is the one of the send that owns the token, and in the
\* same step applies the cancelled terminal update to the Turn Store; after
\* the step the slot and the stored controller are empty, loading is false
\* and the chat status is idle.
C11_StopCancelsActiveSend ==
    [][(OnStop /\ completionGuard # Null)
       => /\ \E s \in Started :
                /\ callId[s] = completionGuard
                /\ abortControllerRef = s
                /\ s \notin aborted /\ s \in aborted'
          /\ turns' = setTurnsUpdater(turns, CancelNotice, TRUE, FALSE, TRUE)
          /\ completionGuard' = Null
          /\ abortControllerRef' = Null
          /\ loading' = FALSE
          /\ chatStatus' = "idle"]_vars

\* C11 witness: a send stopped while its strategy was running: the slot and
\* the stored controller are empty, the send's signal is aborted and its
\* turn is cancelled.
C11_Witness ==
    /\ nSends = 1
    /\ pc[1] = "dispatch" /\ strategy[1] = "high"
    /\ 1 \in aborted
    /\ completionGuard = Null /\ abortControllerRef = Null
    /\ ~loading /\ chatStatus = "idle"
    /\ Len(turns) = 2 /\ Last(turns).status = "cancelled"

\* The web search of send s rejects with an error that is not a cancellation
\* while the send's signal is not aborted.
SearchFailed(s) ==
    /\ s \notin aborted
    /\ \E urlFound \in BOOLEAN, computeLevel \in ComputeLevels :
          SearchSettled(s, "error", computeLevel, urlFound)

\* seq begins with prefix.
BeginsWith(seq, prefix) ==
    Len(seq) >= Len(prefix) /\ SubSeq(seq, 1, Len(prefix)) = prefix

\* C12: when the web search of a send fails with an error that is not a
\* cancellation, the assistant turn the send added gets status error and a
\* content beginning "Error: ", no turn is added, every other turn is
\* unchanged, and the send returns without invoking a strategy.
C12_SearchFailureEndsInOwnErrorTurn ==
    [][\A s \in Sends :
          SearchFailed(s)
          => /\ Len(turns') = Len(turns)
             /\ turns'[assistantIdx[s]].status = "error"
             /\ BeginsWith(turns'[assistantIdx[s]].rawContent, ErrPrefix)
             /\ \A i \in 1..Len(turns) :
                   i # assistantIdx[s] => turns'[i] = turns[i]
             /\ pc'[s] = "done" /\ strategy'[s] = "none"]_vars

\* The web search of send s ends after the send's signal was aborted: the
\* call rejects with an AbortError, or it returns.
SearchAborted(s) ==
    /\ s \in aborted
    /\ \E outcome \in {"ok", "abortError"}, urlFound \in BOOLEAN,
          computeLevel \in ComputeLevels :
          SearchSettled(s, outcome, computeLevel, urlFound)

\* C13: when the web search of a send ends after the send's signal was
\* aborted, the send returns without changing the Turn Store, loading or the
\* chat status, and without invoking a strategy.
C13_AbortedSearchStopsSilently ==
    [][\A s \in Sends :
          SearchAborted(s)
          => /\ UNCHANGED <<turns, loading, chatStatus>>
             /\ pc'[s] = "done" /\ strategy'[s] = "none"]_vars

\* Send s takes the step that runs the dispatch selector (lines 410-485)
\* under the given configuration: the last stage of its pipeline has settled
\* and the send was not ended before the selector.
ReachesDispatch(s, computeLevel, urlFound) ==
    \/ /\ s = nSends + 1
       /\ \E sameTick \in BOOLEAN :
             OnSend("chat", FALSE, sameTick, TRUE, computeLevel, urlFound)
    \/ /\ chatMode[s] = "chat"
       /\ ScrapeSettled(s, TRUE, computeLevel, urlFound)
    \/ /\ s \notin aborted
       /\ SearchSettled(s, "ok", computeLevel, urlFound)
    \/ \E tab \in {"none", "error"} :
          TabQuerySettled(s, tab, computeLevel, urlFound)
    \/ PageReadSettled(s, computeLevel, urlFound)

\* C14 as stated: every send that reaches the dispatch step invokes exactly
\* one strategy: the high-compute handler when computeLevel is high, the
\* medium-compute handler when it is medium, the streaming transport
\* otherwise.
C14_ExactlyOneStrategy ==
    [][\A s \in Sends, computeLevel \in ComputeLevels, urlFound \in BOOLEAN :
          ReachesDispatch(s, computeLevel, urlFound)
          => strategy'[s] = IF computeLevel = "high" THEN "high"
                            ELSE IF computeLevel = "medium" THEN "medium"
                            ELSE "direct"]_vars

\* C14 amended: a send that reaches the dispatch step invokes the high-compute
\* handler when computeLevel is high, the medium-compute handler when it is
\* medium, and otherwise the streaming transport when the model's host maps
\* to an endpoint URL and no strategy when it maps to none; a send that has
\* invoked a strategy or has returned invokes no other one.
C14_AtMostTheConfiguredStrategy ==
    [][\A s \in Sends :
          /\ \A computeLevel \in ComputeLevels, urlFound \in BOOLEAN :
                ReachesDispatch(s, computeLevel, urlFound)
                => /\ strategy[s] = "none"
                   /\ strategy'[s] = IF computeLevel = "high" THEN "high"
                                     ELSE IF computeLevel = "medium" THEN "medium"
                                     ELSE IF urlFound THEN "direct"
                                     ELSE "none"
                   /\ pc'[s] = IF strategy'[s] = "none" THEN "done"
                               ELSE "dispatch"
          /\ strategy[s] # "none" => strategy'[s] \in {strategy[s], "none"}
          /\ pc[s] = "done" => strategy'[s] = "none"]_vars

\* C14 witness: one send has invoked the medium-compute handler, another was
\* ended at the selector because its host maps to no endpoint URL.
C14_Witness ==
    /\ nSends = 2
    /\ pc[1] = "dispatch" /\ strategy[1] = "medium"
    /\ pc[2] = "done" /\ strategy[2] = "none"
    /\ Last(turns).rawContent = ErrPrefix \o NoUrlError

\* Send s takes the step that finds its configuration unusable: the
\* selected model is not among the configured ones (lines 239-244), or the
\* send is to be streamed directly and its host maps to no endpoint URL
\* (lines 450-455).
ConfigurationError(s) ==
    \/ /\ s = nSends + 1
       /\ \E mode \in ChatModes, sameTick, urlFound \in BOOLEAN,
             computeLevel \in ComputeLevels :
             OnSend(mode, FALSE, sameTick, FALSE, computeLevel, urlFound)
    \/ \E urlFound \in BOOLEAN, computeLevel \in ComputeLevels :
          ScrapeSettled(s, FALSE, computeLevel, urlFound)
    \/ ReachesDispatch(s, "low", FALSE)

\* C15: a send whose selected model is not configured, or whose host maps to
\* no endpoint URL under direct streaming, ends with the last turn being an
\* assistant turn with status error and content beginning
\* "Error: Configuration error", the guard slot empty, loading false and no
\* strategy invoked.
C15_ConfigurationErrorEndsSend ==
    [][\A s \in Sends :
          ConfigurationError(s)
          => /\ Last(turns').role = "assistant"
             /\ Last(turns').status = "error"
             /\ BeginsWith(Last(turns').rawContent,
                           ErrPrefix \o <<"Configuration error">>)
             /\ completionGuard' = Null
             /\ loading' = FALSE
             /\ pc'[s] = "done" /\ strategy'[s] = "none"]_vars

\* The tokens and the texts updateAssistantTurn is called with.
Tokens == ({callId[s] : s \in Started} \cup {completionGuard}) \ {Null}
Updates == Payloads \cup ErrorMessages \cup {CancelNotice}

\* The update is applied: it gets past the guard check of line 95 and the
\* already-finalized check of lines 99-107, and so reaches setTurns.
Applied(G, id, update, isFinished, isError, isCancelled) ==
    /\ ~guardMismatch(G, id, isFinished, isError, isCancelled)
    /\ ~alreadyFinalized(G, id, update, isFinished, isError, isCancelled)

\* C16: whatever the flags of an update applied while the last turn is an
\* assistant turn, that turn's status afterwards is error if isError, else
\* cancelled if isCancelled, else complete if isFinished, else streaming.
C16_StatusPriority ==
    \A id \in Tokens, update \in Updates,
       isFinished, isError, isCancelled \in BOOLEAN :
        (/\ Applied(Store, id, update, isFinished, isError, isCancelled)
         /\ Len(turns) > 0 /\ Last(turns).role = "assistant")
        => LET after == updateAssistantTurn(Store, id, update,
                            isFinished, isError, isCancelled).turns
               status == Last(after).status
           IN  /\ Len(after) = Len(turns)
               /\ isError => status = "error"
               /\ (~isError /\ isCancelled) => status = "cancelled"
               /\ (~isError /\ ~isCancelled /\ isFinished)
                      => status = "complete"
               /\ (~isError /\ ~isCancelled /\ ~isFinished)
                      => status = "streaming"

\* C16 witness: a strategy is streaming into the last turn under the token
\* in the guard slot, so updates of every combination of flags are applied.
C16_Witness ==
    \E s \in Started :
        /\ Running(s) /\ completionGuard = callId[s]
        /\ Len(turns) > 0 /\ Last(turns).role = "assistant"
        /\ Last(turns).status = "streaming"
        /\ Last(turns).rawContent = <<"a">>
        /\ \A isFinished, isError, isCancelled \in BOOLEAN :
              Applied(Store, callId[s], <<"a">>, isFinished, isError, isCancelled)

\* What an applied update with isError set must leave behind: the last turn
\* is an assistant turn with status error whose content begins "Error: ",
\* and at most one turn was added.
EndsInErrorTurn(id, update, isFinished, isCancelled) ==
    LET after == updateAssistantTurn(Store, id, update,
                     isFinished, TRUE, isCancelled).turns
    IN  /\ Len(after) \in {Len(turns), Len(turns) + 1}
        /\ Len(after) > 0
        /\ Last(after).role = "assistant"
        /\ Last(after).status = "error"
        /\ BeginsWith(Last(after).rawContent, ErrPrefix)

\* C17: every applied update with isError set, whatever its other flags and
\* whatever the last turn, leaves a last turn that is an assistant turn with
\* status error and content beginning "Error: ", and adds at most one turn.
C17_ErrorUpdateLeavesErrorTurn ==
    \A id \in Tokens, update \in Updates, isFinished, isCancelled \in BOOLEAN :
        Applied(Store, id, update, isFinished, TRUE, isCancelled)
        => EndsInErrorTurn(id, update, isFinished, isCancelled)

\* The place of each await in the text of onSend: the URL scrape (line 203),
\* the query optimizer (255), the web search (284), the page read (329 and
\* 342-352), the strategy (414, 426, 463), and the return.
StageRank(at) ==
    CASE at = "idle" -> 0
      [] at = "scrape" -> 1
      [] at = "optimize" -> 2
      [] at = "search" -> 3
      [] at = "tabQuery" -> 4
      [] at = "pageRead" -> 5
      [] at = "dispatch" -> 6
      [] at = "done" -> 7

\* C18: the collaborators of one send are called in the order URL scrape,
\* query optimizer, web search, page read, strategy; the optimizer and the
\* search are called only by a send in web mode, the search only after the
\* optimizer, the page read only by a send in page mode, and the scrape
\* exactly when the message contains a URL.
C18_StagesInOrder ==
    [][\A s \in Sends :
          /\ pc'[s] # pc[s] => StageRank(pc[s]) < StageRank(pc'[s])
          /\ pc'[s] \in {"optimize", "search"} => chatMode'[s] = "web"
          /\ (pc'[s] = "search" /\ pc[s] # "search") => pc[s] = "optimize"
          /\ pc'[s] \in {"tabQuery", "pageRead"} => chatMode'[s] = "page"
          /\ \A mode \in ChatModes, hasUrls, sameTick, modelFound,
                urlFound \in BOOLEAN, computeLevel \in ComputeLevels :
                (s = nSends + 1 /\ OnSend(mode, hasUrls, sameTick, modelFound,
                                          computeLevel, urlFound))
                => /\ pc'[s] = "scrape" <=> hasUrls
                   /\ pc'[s] = "optimize" => mode = "web"
                   /\ pc'[s] = "tabQuery" => mode = "page"
                   /\ pc'[s] \notin {"done", "dispatch"} => chatMode'[s] = mode]_vars

\* C18 witness: a send in web mode is at its web search and a send in page
\* mode is reading the page.
C18_Witness ==
    /\ nSends = 2
    /\ pc[1] = "search" /\ chatMode[1] = "web"
    /\ pc[2] = "pageRead" /\ chatMode[2] = "page"

\* C19 (ScrapeSpec): when onSend resumes from its scrapes and at least one
\* of them has failed, the scraped fragment is the placeholder alone and stays
\* so whatever the other scrapes deliver; the send appends its turn pair
\* after the turns there were and, unless its configuration names no model
\* or no endpoint, goes on to the stage its chat mode calls for.
C19_FailedScrapeGivesPlaceholder ==
    [][/\ \A modelFound, urlFound \in BOOLEAN, computeLevel \in ComputeLevels :
             (/\ ScrapeResumed(modelFound, computeLevel, urlFound)
              /\ \E i \in 1..Len(scrapes) : scrapes[i] = "rejected")
             => /\ scrapedContent' = ScrapeErrorFragment
                /\ turns' = appendTurnPair(turns)
                   \/ /\ Front(turns') = Front(appendTurnPair(turns))
                      /\ Last(turns').role = "assistant"
                      /\ Last(turns').status = "error"
                      /\ BeginsWith(Last(turns').rawContent,
                                    ErrPrefix \o <<"Configuration error">>)
                /\ modelFound =>
                      /\ chatMode[1] = "web" => pc'[1] = "optimize"
                      /\ chatMode[1] = "page" => pc'[1] = "tabQuery"
                      /\ (chatMode[1] = "chat" /\ (computeLevel # "low" \/ urlFound))
                            => pc'[1] = "dispatch"
       /\ (pc[1] # "scrape" /\ scrapedContent = ScrapeErrorFragment)
             => scrapedContent' = ScrapeErrorFragment]_vars

\* C19 witness: of two URLs one was scraped and one failed; the fragment is
\* the placeholder and the send awaits its query optimizer, its turn pair
\* appended.
C19_Witness ==
    /\ scrapes = <<"fulfilled", "rejected">>
    /\ scrapedContent = ScrapeErrorFragment
    /\ pc[1] = "optimize"
    /\ Len(turns) = 4 /\ Last(turns).status = "streaming"

\* C20: when the query optimizer of a send in web mode rejects, or returns
\* an empty or blank text or the message itself, the web search is called
\* with the message; when it returns another query, with that query.
C20_SearchUsesOptimizedQueryOnlyIfUsable ==
    [][\A s \in Sends, rejected \in BOOLEAN, optimizedQuery \in OptimizerResults :
          OptimizeSettled(s, rejected, optimizedQuery)
          => /\ chatMode[s] = "web"
             /\ pc'[s] = "search"
             /\ queryForProcessing'[s] =
                   IF \/ rejected
                      \/ optimizedQuery \in {<< >>, <<" ">>, <<" ", " ">>, Message}
                       THEN Message
                       ELSE optimizedQuery]_vars

\* C20 witness: one send searches with the optimized query, another with its
\* message.
C20_Witness ==
    /\ nSends = 2
    /\ pc[1] = "search" /\ queryForProcessing[1] = <<"better query">>
    /\ pc[2] = "search" /\ queryForProcessing[2] = Message

\* The send takes a step in which a stage-local collaborator has failed: a
\* scrape, the query optimizer, chrome.tabs.query, or the read of the tab's
\* content.
StageFailure(modelFound, computeLevel, urlFound) ==
    \/ /\ \E i \in 1..Len(scrapes) : scrapes[i] = "rejected"
       /\ ScrapeResumed(modelFound, computeLevel, urlFound)
    \/ /\ modelFound
       /\ \/ \E optimizedQuery \in OptimizerResults :
                QueryOptimized(TRUE, optimizedQuery)
          \/ TabQueried("error", computeLevel, urlFound)
          \/ \E text \in {<< >>, PageText} :
                PageRead(TRUE, text, computeLevel, urlFound)

\* The step of the send applies no terminal update and leaves the send at
\* the await that follows in its pipeline.
GoesOn ==
    /\ turns' \in {turns, appendTurnPair(turns)}
    /\ loading' = loading
    /\ completionGuard' = completionGuard
    /\ abortControllerRef' = abortControllerRef
    /\ pc'[1] = IF pc[1] = "optimize" THEN "search"
                ELSE IF pc[1] \in {"tabQuery", "pageRead"} THEN "dispatch"
                ELSE IF chatMode[1] = "web" THEN "optimize"
                ELSE IF chatMode[1] = "page" THEN "tabQuery"
                ELSE "dispatch"

\* The failure is kept as text in the fragment of its stage.
DegradesInline ==
    /\ pc[1] = "scrape" => scrapedContent' = ScrapeErrorFragment
    /\ pc[1] = "optimize" =>
          queryDisplayKind' = "fallback" /\ queryForProcessing'[1] = Message
    /\ pc[1] = "tabQuery" => pageContent' = PageAccessError
    /\ pc[1] = "pageRead" =>
          pageContent' = IF tabKind = "pdf" THEN PdfExtractError
                         ELSE PageAccessError

\* C21 (StageSpec): the failure of a scrape, of the query optimizer, of the
\* tab query, of the PDF extraction or of the cached page read is kept as
\* text in the stage's fragment and ends the send never: no terminal update
\* is applied and the send moves on to its next await, the strategy after a
\* failed page stage; a send ends in such a step only for a configuration
\* that names no model or no endpoint.
C21_StageFailureDoesNotEndSend ==
    [][\A modelFound, urlFound \in BOOLEAN, computeLevel \in ComputeLevels :
          StageFailure(modelFound, computeLevel, urlFound)
          => /\ DegradesInline
             /\ \/ GoesOn
                \/ /\ pc'[1] = "done"
                   /\ BeginsWith(Last(turns').rawContent,
                                 ErrPrefix \o <<"Configuration error">>)
             /\ (modelFound /\ (computeLevel # "low" \/ urlFound)) => GoesOn]_vars

\* C21 witness: a scrape and the PDF extraction of the send have failed and
\* the send has invoked its strategy, its placeholder still streaming.
C21_Witness ==
    /\ \E i \in 1..Len(scrapes) : scrapes[i] = "rejected"
    /\ scrapedContent = ScrapeErrorFragment
    /\ pageContent = PdfExtractError
    /\ pc[1] = "dispatch" /\ strategy[1] # "none"
    /\ Last(turns).status = "streaming"

\* The limit is one the settings give: a number of thousands of characters
\* from 1 up.
Configured(limit) == limit >= 1

FirstCharacters(text, source, n) ==
    text = Slice(source.from, source.from + Min(Length(source), n))

\* C22: once the fragments are cut, the web fragment is the first
\* min(length, webLimit * 1000) characters of the search result for every
\* configured webLimit other than 128 and the whole search result when
\* webLimit is 128; the page fragment, in page mode, is the same of the page
\* text with contextLimit.
C22_FragmentsTruncatedToLimit ==
    promptAt \in {"compose", "composed"} =>
        /\ Configured(promptInput.webLimit) =>
               IF promptInput.webLimit = 128
               THEN webContentForLlm = promptInput.searchRes
               ELSE FirstCharacters(webContentForLlm, promptInput.searchRes,
                                    promptInput.webLimit * 1000)
        /\ Configured(promptInput.contextLimit) /\ promptInput.mode = "page" =>
               IF promptInput.contextLimit = 128
               THEN pageContentForLlm = promptInput.currentPageContent
               ELSE FirstCharacters(pageContentForLlm,
                                    promptInput.currentPageContent,
                                    promptInput.contextLimit * 1000)

\* A 10,000-character search result cut to 5,000 characters by webLimit 5.
C22_Witness ==
    /\ promptAt = "composed"
    /\ promptInput.mode = "web"
    /\ promptInput.webLimit = 5
    /\ Length(promptInput.searchRes) = 10000
    /\ webContentForLlm = Slice(0, 5000)

PromptOrder == <<"persona", "user", "note", "page", "web", "scraped">>

Rank(kind) == CHOOSE i \in 1..Len(PromptOrder) : PromptOrder[i] = kind

\* Whether the fragment of a kind is not empty.
Present(kind) ==
    CASE kind = "persona" -> promptInput.persona
      [] kind = "user" -> hasUserContext(promptInput.userName,
                                         promptInput.userProfile)
      [] kind = "note" -> promptInput.useNote /\ promptInput.noteContent
      [] kind = "page" -> /\ promptInput.mode = "page"
                          /\ Length(pageContentForLlm) # 0
      [] kind = "web" -> /\ promptInput.mode = "web"
                         /\ Length(webContentForLlm) # 0
      [] kind = "scraped" -> promptInput.scrapedContent

\* C23: the composed system prompt has one part for each fragment that is
\* not empty and none for a fragment that is empty, and its parts are in the
\* order persona, user profile, note, page, web, scraped content.
C23_PromptPartsInPriorityOrder ==
    promptAt = "composed" =>
        /\ \A i \in 1..Len(PromptOrder) :
               Cardinality({j \in 1..Len(systemPromptParts) :
                               systemPromptParts[j] = PromptOrder[i]})
                   = IF Present(PromptOrder[i]) THEN 1 ELSE 0
        /\ \A j \in 1..Len(systemPromptParts) :
               \E i \in 1..Len(PromptOrder) :
                   systemPromptParts[j] = PromptOrder[i]
        /\ \A j, k \in 1..Len(systemPromptParts) :
               j < k => Rank(systemPromptParts[j]) < Rank(systemPromptParts[k])

\* A prompt of five parts, the web fragment among them.
C23_Witness ==
    /\ promptAt = "composed"
    /\ systemPromptParts = <<"persona", "user", "note", "web", "scraped">>

\* C24: in chat mode, without URLs, at the default compute level and with
\* nothing else going on, the send appends one user turn and one assistant
\* turn; from then on only the last turn changes, its status changes only
\* from streaming to complete, and the callback that completes it leaves in
\* it the payload of the last unfinished chunk.
C24_ChatSendStreamsToComplete ==
    [][/\ nSends = 0 /\ nSends' = 1 =>
              /\ Len(turns') = Len(turns) + 2
              /\ SubSeq(turns', 1, Len(turns)) = turns
              /\ turns'[Len(turns) + 1].role = "user"
              /\ Last(turns').role = "assistant"
              /\ Last(turns').status = "streaming"
       /\ nSends = 1 =>
              /\ Len(turns') = Len(turns)
              /\ Front(turns') = Front(turns)
              /\ Last(turns').role = "assistant"
              /\ Last(turns').status # Last(turns).status =>
                     /\ Last(turns).status = "streaming"
                     /\ Last(turns').status = "complete"
              /\ ~terminal[1] /\ terminal'[1] =>
                     /\ Last(turns').status = "complete"
                     /\ chunks # << >> =>
                            Last(turns').rawContent = Last(chunks)
              /\ terminal[1] => turns' = turns]_vars

\* The send has completed after three chunks, behind an earlier exchange.
C24_Witness ==
    /\ Len(turns) = 4
    /\ Len(chunks) = 3
    /\ pc[1] = "done"
    /\ Last(turns).status = "complete"
    /\ Last(turns).rawContent = Last(chunks)
    /\ Last(turns).rawContent = <<"a", "b", "a">>

Streaming == {i \in 1..Len(turns) : /\ turns[i].role = "assistant"
                                    /\ turns[i].status = "streaming"}

\* C25: at most one assistant turn has status streaming, and a streaming
\* assistant turn is the last turn.
C25_OnlyLastTurnStreams ==
    /\ Cardinality(Streaming) <= 1
    /\ \A i \in Streaming : i = Len(turns)

\* The assistant placeholder of send s has been appended and is not closed.
Open(s) ==
    /\ assistantIdx[s] # 0
    /\ turns[assistantIdx[s]].status \notin TerminalStatus

\* C26: under fairness, the assistant placeholder that a send has appended
\* eventually has status complete, error or cancelled.
C26_PlaceholderEventuallyClosed ==
    \A s \in Sends : [](Open(s) => <>(~Open(s)))

\* The hook is at rest: no token in the guard slot, no stored controller,
\* loading false.
AtRest ==
    /\ completionGuard = Null
    /\ abortControllerRef = Null
    /\ ~loading

\* C27: under fairness, every accepted send is followed by a state in which
\* the guard slot does not hold its token, and once the last send has been
\* accepted the hook comes to rest.
C27_GuardEventuallyReleased ==
    /\ \A s \in Sends :
           [](s \in Started => <>(completionGuard # callId[s]))
    /\ [](nSends = MaxSends => <>AtRest)

\* C28: the tokens of the accepted sends are strictly increasing in the order
\* of the sends, hence pairwise distinct.
C28_TokensStrictlyIncreasing ==
    \A s1, s2 \in Started : s1 < s2 => callId[s1] < callId[s2]

\* C29: the stored controller is not empty exactly when the guard slot is not
\* empty, and then it is the controller of the send whose token is in the
\* slot.
C29_ControllerMatchesGuard ==
    /\ abortControllerRef # Null <=> completionGuard # Null
    /\ completionGuard # Null =>
           /\ abortControllerRef \in Started
           /\ callId[abortControllerRef] = completionGuard

\* The strategy call of send s has thrown with the message, the signal of the
\* send being aborted or not.
Threw(s, message, isAborted) ==
    /\ DispatchThrew(s, message)
    /\ isAborted <=> s \in aborted

\* The terminal error update of the token: the last turn is closed as an
\* error with the content, loading ends, and the guard slot is cleared if it
\* holds the token.
ErrorUpdateApplied(id, content) ==
    /\ Len(turns') = Len(turns)
    /\ Front(turns') = Front(turns)
    /\ Last(turns').role = "assistant"
    /\ Last(turns').status = "error"
    /\ Last(turns').rawContent = content
    /\ ~loading'
    /\ completionGuard' = IF completionGuard = id THEN Null
                          ELSE completionGuard

\* C30: when the strategy call of a send throws and the signal of the send
\* is not aborted, the terminal error update of the send's token is applied
\* and the last assistant turn has status error and content "Error: " and the
\* message; when the signal is aborted, the turns stay as they are, the chat
\* status is idle and the guard slot is cleared only if it holds the token of
\* the send.
C30_ThrowEndsInErrorUnlessAborted ==
    [][\A s \in Sends, message \in ErrorMessages :
           /\ Threw(s, message, FALSE) =>
                  ErrorUpdateApplied(callId[s], ErrPrefix \o message)
           /\ Threw(s, message, TRUE) =>
                  /\ turns' = turns
                  /\ chatStatus' = "idle"
                  /\ completionGuard' =
                         IF completionGuard = callId[s] THEN Null
                         ELSE completionGuard]_vars

\* C32: whenever the guard slot holds a token, loading is true.
C32_GuardHeldImpliesLoading ==
    completionGuard # Null => loading

\* onSend has been called and has bailed out at line 160 or line 165.
Rejected(configMissing) == OnSendRejected(configMissing)

\* C33: an onSend that is rejected for a missing configuration or an empty
\* message leaves the guard slot, the stored controller and the turns as they
\* are, aborts no send and supersedes none; only loading may change, to
\* false, and only when the configuration is missing.
C33_RejectedSendHasNoEffect ==
    [][\A configMissing \in BOOLEAN :
           Rejected(configMissing) =>
               /\ UNCHANGED <<completionGuard, abortControllerRef, turns,
                              aborted, nSends, callId, pc, chatStatus>>
               /\ loading' # loading => configMissing /\ ~loading']_vars

\* C34: onStop with an empty guard slot leaves the turns, the guard slot and
\* the stored controller as they are, aborts nothing, and leaves loading
\* false and the chat status idle.
C34_StopWithEmptyGuard ==
    [][OnStop /\ completionGuard = Null =>
           /\ UNCHANGED <<turns, completionGuard, abortControllerRef,
                          aborted>>
           /\ ~loading'
           /\ chatStatus' = "idle"]_vars

\* The first send awaits its scrape, not aborted and with its token in the
\* guard slot, and an onSend rejected for a missing configuration has set
\* loading to false.
C33_Witness ==
    /\ nSends = 1
    /\ pc[1] = "scrape"
    /\ 1 \notin aborted
    /\ completionGuard = callId[1]
    /\ abortControllerRef = 1
    /\ ~loading

\* The only send has completed, and an onStop at the empty guard slot has
\* set the chat status from done to idle and left the completed turn alone.
C34_Witness ==
    /\ nSends = 1
    /\ pc[1] = "done"
    /\ completionGuard = Null
    /\ Last(turns).status = "complete"
    /\ Last(turns).rawContent = <<"a">>
    /\ chatStatus = "idle"
    /\ ~loading

\* C31: the Input component calls onSend only while its isLoading prop is
\* false and its message is not blank; while isLoading is true a click on the
\* send button calls the stop handler and a key calls nothing.
C31_NoSendWhileLoading ==
    [][/\ called' # called /\ Last(called').handler = "onSend" =>
              ~inputIsLoading /\ ~isBlank(inputMessage)
       /\ inputIsLoading /\ SendClicked =>
              called' = Append(called, [handler |-> "onStopRequest",
                                        event |-> "click"])
       /\ inputIsLoading =>
              \A key \in Keys, altKey, metaKey, shiftKey \in BOOLEAN :
                  KeyPressed(key, altKey, metaKey, shiftKey) =>
                      called' = called]_vars

\* The Enter key has sent a message while not loading, and under the next
\* props, loading with a message, a click has called the stop handler.
C31_Witness ==
    /\ inputIsLoading
    /\ inputMessage = <<"hi">>
    /\ called = << [handler |-> "onSend", event |-> "key"],
                   [handler |-> "onStopRequest", event |-> "click"] >>

\* C35: the onEnd callback of a speakMessage call is invoked at most once,
\* and the end or error event of an utterance never invokes the callback of
\* a speakMessage call made after that utterance's call.
C35_OnEndOncePerCall ==
    /\ \A i, j \in DOMAIN invocations :
           invocations[i].callback = invocations[j].callback => i = j
    /\ \A i \in DOMAIN invocations :
           invocations[i].by # 0 =>
               invocations[i].callback <= utterances[invocations[i].by].call

====
